---------------------------- MODULE Spec2Model ----------------------------
(***************************************************************************)
(* VoxPop AI: preference inference, seeded random generators and the       *)
(* Monte Carlo allocation simulator, modelled from the TypeScript sources. *)
(*                                                                         *)
(* Numbers.  The sources compute in IEEE doubles.  The model computes in   *)
(* integers: every quantity carries a fixed scale that is named where the  *)
(* quantity is defined.  TLC's integers are 32 bits wide, so products      *)
(* that exceed 2^31 are carried in 16-bit limbs.                           *)
(***************************************************************************)
EXTENDS Integers, Sequences, FiniteSets, TLC

VARIABLES
    \* ---- inferObjectiveWeights (preferenceInference.ts) ----
    infPc,        \* "loop" while questions are processed, "done" after return
    accuracy,     \* running accuracy value, in units of 1/WScale
    fairness,     \* running fairness value, in units of 1/WScale
    robustness,   \* running robustness value, in units of 1/WScale
    qSeen,        \* number of questions the loop has visited
    inferred,     \* the returned ObjectiveWeights, NoWeights before return
    \* ---- one seededRandom closure followed on its own ----
    rngSeed,      \* the seed string (UTF-16 code units)
    rngMod,       \* the modulus of the generator: 10000 or 1000
    rngH,         \* the closure's captured state h
    rngPrev,      \* h before the latest call
    rngOut,       \* numerator of the latest returned value, -1 before a call
    rngCalls,     \* number of calls made
    \* ---- runMonteCarloAllocation (valueQuestionAgent.ts) ----
    mcPc,         \* "idle", "loop" (candidate loop), "done" (returned)
    mcInput,      \* the arguments of the current call
    mcProfiles,   \* profiles = buildGroupProfiles(asymmetry)
    mcIdx,        \* index of the next grid point to evaluate
    mcResults,    \* the results array
    mcRand,       \* state of the generator used last, NoRand before any
    mcResult,     \* the returned MonteCarloResult, NoResult before return
    mcFirst,      \* input and result of the first completed call
    mcRepeat,     \* TRUE when the current call repeats the first call's input
    \* ---- the response store and its aggregates ----
    responses,    \* the store's responses array (useAppStore.ts)
    comWeights,   \* the latest computeCommunityWeights result
    insights,     \* the latest computeInsights result
    \* ---- runAutoML (simulatedAutoML.ts) ----
    amlInput,     \* the arguments of the call
    amlResult,    \* the returned AutoMLResult, NoAutoML before return
    \* ---- inferObjectiveWeights, its running values as doubles ----
    running,      \* [accuracy, fairness, robustness] inside the loop
    runSeen,      \* number of answered questions applied
    \* ---- computeInferredCommunityWeights (analytics) ----
    infCommunity, \* its result, NoWeights3 for null, NotComputed3 before the call
    \* ---- the other fields of the store, and the dashboard page ----
    store,        \* datasetAnalysis .. recommendation (useAppStore.ts)
    page,         \* the page that is mounted
    inFlight      \* the computeRecommendation calls awaiting their results

infVars == <<infPc, accuracy, fairness, robustness, qSeen, inferred>>
rngVars == <<rngSeed, rngMod, rngH, rngPrev, rngOut, rngCalls>>

mcVars == <<mcPc, mcInput, mcProfiles, mcIdx, mcResults, mcRand, mcResult,
           mcFirst, mcRepeat>>

appVars == <<responses, comWeights, insights, amlInput, amlResult>>

dashVars == <<store, page, inFlight>>

moreVars == <<running, runSeen, infCommunity, dashVars>>

vars == <<infVars, rngVars, mcVars, appVars, moreVars>>

\* The values of a component's variables while another component is checked.
IdleInfer ==
    /\ infPc = "idle"
    /\ accuracy = 0
    /\ fairness = 0
    /\ robustness = 0
    /\ qSeen = 0
    /\ inferred = [accuracy |-> -1, fairness |-> -1, robustness |-> -1]

IdleMC ==
    /\ mcPc = "off"
    /\ mcInput = <<>>
    /\ mcProfiles = <<>>
    /\ mcIdx = 0
    /\ mcResults = <<>>
    /\ mcRand = -1
    /\ mcResult = <<>>
    /\ mcFirst = <<>>
    /\ mcRepeat = FALSE

IdleRng ==
    /\ rngSeed = <<>>
    /\ rngMod = 0
    /\ rngH = 0
    /\ rngPrev = 0
    /\ rngOut = -1
    /\ rngCalls = 0

IdleStore ==
    /\ responses = <<>>
    /\ comWeights = [accuracy |-> -1, fairness |-> -1, robustness |-> -1]
    /\ insights = [totalResponses |-> -1]

IdleAutoML ==
    /\ amlInput = <<>>
    /\ amlResult = <<>>

IdleApp == IdleStore /\ IdleAutoML

IdleRunning ==
    /\ running = <<>>
    /\ runSeen = 0

IdleInfCommunity == infCommunity = [accuracy |-> -2, fairness |-> -2, robustness |-> -2]

\* The store as create() builds it; `null` is written NoRecommendation for
\* the recommendation and "null" for the fields kept as tokens.
NoRecommendation == [communityWeights |-> [accuracy |-> -1, fairness |-> -1, robustness |-> -1]]

InitialStore ==
    [datasetAnalysis |-> "null",
     structuralAsymmetries |-> <<>>,
     valueQuestions |-> <<>>,
     scenarios |-> <<>>,
     scenarioAutoMLResults |-> <<>>,
     personalRecommendation |-> "null",
     recommendation |-> NoRecommendation]

IdleDashboard ==
    /\ store = InitialStore
    /\ page = "none"
    /\ inFlight = <<>>

IdleMore == IdleRunning /\ IdleInfCommunity /\ IdleDashboard

---------------------------------------------------------------------------
(***************************************************************************)
(* Generic integer helpers                                                 *)
(***************************************************************************)
Max2(a, b) == IF a >= b THEN a ELSE b
Min2(a, b) == IF a <= b THEN a ELSE b

\* Math.round(n/d) for d > 0: the nearest integer, halves towards +infinity.
\* (x \div y of TLA+ is the floor of x/y for y > 0.)
RoundDiv(n, d) == (2 * n + d) \div (2 * d)

---------------------------------------------------------------------------
(***************************************************************************)
(* Preference inference: inferObjectiveWeights                             *)
(*                                                                         *)
(* Scale: the running values are kept in units of 1/200 so that            *)
(* strength = signal * weight * 15 and its 0.6 / 0.4 / 0.5 shares are      *)
(* integers for signals in halves and weights in tenths.                   *)
(***************************************************************************)
WScale == 200

\* Bound: the longest question list the loop is run over.
MaxQuestions == 5

QuestionTypes == {"likert", "binary"}
Objectives == {"accuracy", "fairness", "robustness"}
\* ValueQuestion.weight in tenths: the multipliers the question templates use.
QuestionWeights10 == {10, 11, 12, 13}
\* ValueResponse.answer values fed to the function; 0 and 6 lie outside the
\* likert range and exercise the clamp of normalizeLikert.
Answers == 0 .. 6

NoWeights == [accuracy |-> -1, fairness |-> -1, robustness |-> -1]

\* normalizeLikert, in halves: (min(5, max(1, answer)) - 3) / 2.
normalizeLikert2(answer) == Min2(5, Max2(1, answer)) - 3

\* normalizeBinary, in halves: answer >= 1 ? 0.5 : -0.5.
normalizeBinary2(answer) == IF answer >= 1 THEN 1 ELSE -1

\* signal (in halves) of one answered question.
Signal2(type, answer) ==
    IF type = "binary" THEN normalizeBinary2(answer) ELSE normalizeLikert2(answer)

\* strength = signal * q.weight * 15, in units of 1/WScale:
\* (s2/2) * (w10/10) * 15 * 200 = s2 * w10 * 150.
Strength(type, answer, w10) == Signal2(type, answer) * w10 * 150

\* the switch on q.mapsTo: the triple <<accuracy, fairness, robustness>> after
\* one answered question (0.6 s = 3s/5, 0.4 s = 2s/5, 0.5 s = s/2).
ApplyStrength(acc, fair, rob, mapsTo, s) ==
    CASE mapsTo = "accuracy"   -> <<acc + s, fair - (3 * s) \div 5, rob - (2 * s) \div 5>>
      [] mapsTo = "fairness"   -> <<acc - (3 * s) \div 5, fair + s, rob - (2 * s) \div 5>>
      [] mapsTo = "robustness" -> <<acc - s \div 2, fair - s \div 2, rob + s>>

\* "Clamp to minimum 5 each" (5 in units of 1/WScale).
ClampMin5(v) == Max2(5 * WScale, v)

\* A normalization that rounds all three shares independently.
NormalizedWeightsRoundAll(acc, fair, rob) ==
    LET a == ClampMin5(acc)
        f == ClampMin5(fair)
        r == ClampMin5(rob)
        total == a + f + r
    IN  [accuracy |-> RoundDiv(a * 100, total),
         fairness |-> RoundDiv(f * 100, total),
         robustness |-> RoundDiv(r * 100, total)]

\* "Normalize to sum to 100": the two Math.round calls and the remainder.
NormalizedWeights(acc, fair, rob) ==
    LET a == ClampMin5(acc)
        f == ClampMin5(fair)
        r == ClampMin5(rob)
        total == a + f + r
        na == RoundDiv(a * 100, total)
        nf == RoundDiv(f * 100, total)
    IN  [accuracy |-> na, fairness |-> nf, robustness |-> 100 - na - nf]

InitInfer ==
    /\ IdleMore
    /\ IdleRng
    /\ IdleMC
    /\ IdleApp
    /\ infPc = "loop"
    /\ accuracy = 40 * WScale
    /\ fairness = 40 * WScale
    /\ robustness = 20 * WScale
    /\ qSeen = 0
    /\ inferred = NoWeights

\* One iteration of "for (const q of questions)" whose question has a recorded
\* response: the question (type, mapsTo, weight) and the looked-up answer are
\* inputs.
ApplySignal ==
    /\ infPc = "loop"
    /\ qSeen < MaxQuestions
    /\ \E type \in QuestionTypes, mapsTo \in Objectives,
          w10 \in QuestionWeights10, answer \in Answers :
          LET s == Strength(type, answer, w10)
              t == ApplyStrength(accuracy, fairness, robustness, mapsTo, s)
          IN  /\ accuracy' = t[1]
              /\ fairness' = t[2]
              /\ robustness' = t[3]
    /\ qSeen' = qSeen + 1
    /\ UNCHANGED <<infPc, inferred, rngVars, mcVars, appVars, moreVars>>

\* One iteration whose question has no response: "continue".
SkipUnanswered ==
    /\ infPc = "loop"
    /\ qSeen < MaxQuestions
    /\ qSeen' = qSeen + 1
    /\ UNCHANGED <<infPc, accuracy, fairness, robustness, inferred, rngVars, mcVars, appVars, moreVars>>

\* The end of the loop: clamp, normalize, return.
ReturnWeights ==
    /\ infPc = "loop"
    /\ inferred' = NormalizedWeights(accuracy, fairness, robustness)
    /\ infPc' = "done"
    /\ UNCHANGED <<accuracy, fairness, robustness, qSeen, rngVars, mcVars, appVars, moreVars>>

NextInfer == ApplySignal \/ SkipUnanswered \/ ReturnWeights

SpecInfer == InitInfer /\ [][NextInfer]_vars

\* C1: whatever questions and responses were processed, the weights that
\* inferObjectiveWeights returns add up to exactly 100.
C1_SumIs100 ==
    infPc = "done" =>
        inferred.accuracy + inferred.fairness + inferred.robustness = 100

\* C1 witness: a return after answered questions drove a running value below
\* the minimum, so that the clamp and the renormalization both acted.
C1_Witness ==
    /\ infPc = "done"
    /\ qSeen >= 2
    /\ accuracy < 5 * WScale
    /\ inferred.accuracy + inferred.fairness + inferred.robustness = 100

\* C2 (as claimed): every returned weight is at least 5.
C2_EachAtLeast5 ==
    infPc = "done" =>
        /\ inferred.accuracy >= 5
        /\ inferred.fairness >= 5
        /\ inferred.robustness >= 5

---------------------------------------------------------------------------
(***************************************************************************)
(* Seeded random generators: seededRandom of valueQuestionAgent.ts         *)
(* (modulus 10000) and of simulatedAutoML.ts (modulus 1000).               *)
(*                                                                         *)
(* A seed string is the sequence of its UTF-16 code units.  JavaScript     *)
(* evaluates h * 1103515245 + 12345 in doubles: the product and then the   *)
(* sum are each rounded to 53 significant bits (ties to even) before       *)
(* "& 0x7fffffff" converts the double to a 32-bit integer and masks it.    *)
(* Numbers above 2^31 are held as four 16-bit limbs <<d3, d2, d1, d0>>.    *)
(***************************************************************************)
Limb == 65536
HalfLimb == 32768
MaxInt32 == 2147483647

\* 1103515245 = LcgMulHi * 2^16 + LcgMulLo
LcgMulHi == 16838
LcgMulLo == 20077
LcgInc == 12345

\* Carry (or borrow) propagation: d3*2^48 + d2*2^32 + d1*2^16 + d0 with
\* d2, d1, d0 brought into 0 .. 2^16 - 1.
Norm4(d3, d2, d1, d0) ==
    LET e1 == d1 + d0 \div Limb
        e2 == d2 + e1 \div Limb
    IN  <<d3 + e2 \div Limb, e2 % Limb, e1 % Limb, d0 % Limb>>

\* The spacing of doubles at the magnitude of a limb number with top limb
\* d3: 1 below 2^53, then doubling with every further bit.
RECURSIVE UlpOf(_)
UlpOf(d3) == IF d3 < 32 THEN 1 ELSE 2 * UlpOf(d3 \div 2)

\* d rounded to a multiple of the spacing p, ties to the even multiple.
RoundToUlp(d, p) ==
    IF p = 1 THEN d
    ELSE IF 2 * (d[4] % p) > p \/ (2 * (d[4] % p) = p /\ (d[4] \div p) % 2 = 1)
    THEN Norm4(d[1], d[2], d[3], (d[4] - (d[4] % p)) + p)
    ELSE Norm4(d[1], d[2], d[3], d[4] - (d[4] % p))

\* Rounding of an exact limb number to the nearest double, ties to even.
Round53(d) == RoundToUlp(d, UlpOf(d[1]))

\* The exact product m * 1103515245 for 0 <= m < 2^31.
MulLcg(m) ==
    LET m1 == m \div Limb
        m0 == m % Limb
    IN  Norm4(0, m1 * LcgMulHi, m1 * LcgMulLo + m0 * LcgMulHi, m0 * LcgMulLo)

\* The low 31 bits of sign * d: what "& 0x7fffffff" leaves of the double.
Mask31(neg, d) ==
    LET t == (d[3] % HalfLimb) * Limb + d[4]
    IN  IF neg /\ t > 0 THEN (MaxInt32 - t) + 1 ELSE t

\* The exact recurrence (h * 1103515245 + 12345) mod 2^31.
ExactLcgNext(h) ==
    LET neg == h < 0
        m == IF neg THEN -h ELSE h
        prod == MulLcg(m)
        sum == Norm4(prod[1], prod[2], prod[3],
                     prod[4] + (IF neg THEN -LcgInc ELSE LcgInc))
    IN  Mask31(neg, sum)

\* The double sign * prod + 12345, as a magnitude.
AddInc(neg, prod) ==
    Round53(Norm4(prod[1], prod[2], prod[3],
                  prod[4] + (IF neg THEN -LcgInc ELSE LcgInc)))

\* h = (h * 1103515245 + 12345) & 0x7fffffff as JavaScript evaluates it:
\* the product is rounded to a double, then the sum is.
LcgNext(h) ==
    Mask31(h < 0, AddInc(h < 0, Round53(MulLcg(IF h < 0 THEN -h ELSE h))))

\* h = ((h << 5) - h + seed.charCodeAt(i)) | 0 on the unsigned 32-bit
\* pattern <<hi, lo>> of h: 31 * h + c modulo 2^32.
HashChar(u, c) ==
    LET lo == u[2] * 31 + c
    IN  <<(u[1] * 31 + lo \div Limb) % Limb, lo % Limb>>

\* "for (let i = 0; i < seed.length; i++)": HashChar over the characters
\* i .. seed.length of seed, in order.  (No limb of a 32-bit pattern is
\* negative: the test on u only makes the evaluation settle each
\* intermediate pattern before it goes on to the next character.)
RECURSIVE HashFrom(_, _, _)
HashFrom(u, seed, i) ==
    IF i > Len(seed) \/ u[1] < 0 THEN u
    ELSE HashFrom(HashChar(u, seed[i]), seed, i + 1)

\* The signed value of a 32-bit pattern ("| 0").
ToInt32(u) ==
    IF u[1] >= HalfLimb
    THEN -((Limb - 1 - u[1]) * Limb + (Limb - u[2]))
    ELSE u[1] * Limb + u[2]

\* seededRandom(seed): the closure's initial h.
seededRandom(seed) == ToInt32(HashFrom(<<0, 0>>, seed, 1))

\* The generators' moduli: (h % 10000) / 10000 and (h % 1000) / 1000.
McModulus == 10000
AutoMLModulus == 1000

\* Seed strings, as UTF-16 code units.
SeedCommunity == <<99, 111, 109, 109, 117, 110, 105, 116, 121>>
SeedPersonal == <<112, 101, 114, 115, 111, 110, 97, 108>>
SeedMcDefault == <<109, 99, 45, 100, 101, 102, 97, 117, 108, 116>>
SeedX == <<115, 101, 101, 100, 45, 120>>
SuffixEqual == <<101, 113, 117, 97, 108>>
SuffixEqualGap == <<101, 113, 117, 97, 108, 45, 103, 97, 112>>

RngSeeds ==
    {SeedCommunity, SeedPersonal, SeedMcDefault, SeedX,
     SeedCommunity \o SuffixEqual, SeedCommunity \o SuffixEqualGap, <<>>}

\* Bound: the number of draws followed from one generator.
MaxDraws == 12

InitRng ==
    /\ IdleMore
    /\ rngSeed \in RngSeeds
    /\ rngMod \in {McModulus, AutoMLModulus}
    /\ rngH = seededRandom(rngSeed)
    /\ rngPrev = rngH
    /\ rngOut = -1
    /\ rngCalls = 0
    /\ IdleInfer
    /\ IdleMC
    /\ IdleApp

\* One call of the closure returned by seededRandom: the state moves on and
\* the numerator of the returned fraction h % modulus / modulus is recorded.
RandCall ==
    /\ rngCalls < MaxDraws
    /\ rngPrev' = rngH
    /\ rngH' = LcgNext(rngH)
    /\ rngOut' = rngH' % rngMod
    /\ rngCalls' = rngCalls + 1
    /\ UNCHANGED <<rngSeed, rngMod>>

---------------------------------------------------------------------------
(***************************************************************************)
(* Monte Carlo allocation simulator: runMonteCarloAllocation and its       *)
(* helpers in valueQuestionAgent.ts.                                       *)
(*                                                                         *)
(* Scales: outcomes, baselines, responsiveness and fairness gaps are in    *)
(* units of 1e-6 (OUnit), allocation fractions in units of 1e-6 (GUnit)   *)
(* in the grid and in thousandths (AUnit) where toFixed(3) reports them,   *)
(* weights in percent, scores therefore in units of 1e-8.  Population      *)
(* shares are kept as numerators over their sum.                           *)
(***************************************************************************)
OUnit == 1000000
AUnit == 1000
GUnit == 1000000

\* +x.toFixed(3) of an allocation fraction, in thousandths.
AllocFixed3(alloc) == (alloc + 500) \div 1000

\* Math.sqrt(-2 * Math.log(Math.max(u1, 0.0001))) in units of 1e-4, tabulated
\* for the 10000 values u1 = k/10000 the generator returns (entry k + 1).
SqrtLogTable ==
    <<42919, 42919, 41273, 40278, 39558, 38989, 38519, 38117, 37765, 37452, 37169, 36912, 36675, 36457, 36253, 36062, 35882, 35713, 35553, 35400,
      35255, 35116, 34984, 34856, 34734, 34616, 34503, 34393, 34287, 34185, 34086, 33989, 33896, 33805, 33716, 33630, 33546, 33465, 33385, 33307,
      33231, 33157, 33084, 33013, 32943, 32875, 32808, 32742, 32678, 32614, 32552, 32492, 32432, 32373, 32315, 32258, 32202, 32147, 32093, 32040,
      31987, 31936, 31885, 31835, 31785, 31736, 31688, 31641, 31594, 31548, 31502, 31457, 31412, 31368, 31325, 31282, 31240, 31198, 31156, 31116,
      31075, 31035, 30996, 30956, 30918, 30879, 30842, 30804, 30767, 30730, 30694, 30658, 30622, 30587, 30552, 30517, 30483, 30449, 30415, 30382,
      30349, 30316, 30283, 30251, 30219, 30187, 30156, 30125, 30094, 30063, 30033, 30003, 29973, 29943, 29914, 29884, 29855, 29827, 29798, 29770,
      29742, 29714, 29686, 29659, 29631, 29604, 29577, 29550, 29524, 29498, 29471, 29445, 29420, 29394, 29368, 29343, 29318, 29293, 29268, 29243,
      29219, 29194, 29170, 29146, 29122, 29098, 29075, 29051, 29028, 29005, 28982, 28959, 28936, 28913, 28891, 28868, 28846, 28824, 28802, 28780,
      28758, 28737, 28715, 28694, 28672, 28651, 28630, 28609, 28588, 28567, 28547, 28526, 28506, 28485, 28465, 28445, 28425, 28405, 28385, 28365,
      28346, 28326, 28307, 28287, 28268, 28249, 28230, 28211, 28192, 28173, 28154, 28136, 28117, 28099, 28080, 28062, 28044, 28025, 28007, 27989,
      27971, 27954, 27936, 27918, 27901, 27883, 27866, 27848, 27831, 27814, 27797, 27779, 27762, 27745, 27729, 27712, 27695, 27678, 27662, 27645,
      27629, 27612, 27596, 27580, 27563, 27547, 27531, 27515, 27499, 27483, 27467, 27451, 27436, 27420, 27404, 27389, 27373, 27358, 27343, 27327,
      27312, 27297, 27282, 27266, 27251, 27236, 27221, 27206, 27192, 27177, 27162, 27147, 27133, 27118, 27104, 27089, 27075, 27060, 27046, 27032,
      27017, 27003, 26989, 26975, 26961, 26947, 26933, 26919, 26905, 26891, 26877, 26863, 26850, 26836, 26822, 26809, 26795, 26782, 26768, 26755,
      26742, 26728, 26715, 26702, 26688, 26675, 26662, 26649, 26636, 26623, 26610, 26597, 26584, 26571, 26558, 26546, 26533, 26520, 26508, 26495,
      26482, 26470, 26457, 26445, 26432, 26420, 26407, 26395, 26383, 26370, 26358, 26346, 26334, 26322, 26309, 26297, 26285, 26273, 26261, 26249,
      26237, 26226, 26214, 26202, 26190, 26178, 26167, 26155, 26143, 26132, 26120, 26108, 26097, 26085, 26074, 26062, 26051, 26039, 26028, 26017,
      26005, 25994, 25983, 25972, 25960, 25949, 25938, 25927, 25916, 25905, 25894, 25883, 25872, 25861, 25850, 25839, 25828, 25817, 25806, 25795,
      25785, 25774, 25763, 25752, 25742, 25731, 25720, 25710, 25699, 25689, 25678, 25668, 25657, 25647, 25636, 25626, 25615, 25605, 25595, 25584,
      25574, 25564, 25554, 25543, 25533, 25523, 25513, 25503, 25492, 25482, 25472, 25462, 25452, 25442, 25432, 25422, 25412, 25402, 25392, 25383,
      25373, 25363, 25353, 25343, 25333, 25324, 25314, 25304, 25295, 25285, 25275, 25266, 25256, 25246, 25237, 25227, 25218, 25208, 25199, 25189,
      25180, 25170, 25161, 25151, 25142, 25133, 25123, 25114, 25105, 25095, 25086, 25077, 25068, 25058, 25049, 25040, 25031, 25022, 25012, 25003,
      24994, 24985, 24976, 24967, 24958, 24949, 24940, 24931, 24922, 24913, 24904, 24895, 24886, 24877, 24869, 24860, 24851, 24842, 24833, 24825,
      24816, 24807, 24798, 24790, 24781, 24772, 24764, 24755, 24746, 24738, 24729, 24720, 24712, 24703, 24695, 24686, 24678, 24669, 24661, 24652,
      24644, 24635, 24627, 24618, 24610, 24602, 24593, 24585, 24577, 24568, 24560, 24552, 24543, 24535, 24527, 24518, 24510, 24502, 24494, 24486,
      24477, 24469, 24461, 24453, 24445, 24437, 24429, 24421, 24413, 24404, 24396, 24388, 24380, 24372, 24364, 24356, 24348, 24340, 24333, 24325,
      24317, 24309, 24301, 24293, 24285, 24277, 24269, 24262, 24254, 24246, 24238, 24230, 24223, 24215, 24207, 24199, 24192, 24184, 24176, 24169,
      24161, 24153, 24146, 24138, 24130, 24123, 24115, 24108, 24100, 24092, 24085, 24077, 24070, 24062, 24055, 24047, 24040, 24032, 24025, 24017,
      24010, 24003, 23995, 23988, 23980, 23973, 23966, 23958, 23951, 23944, 23936, 23929, 23922, 23914, 23907, 23900, 23892, 23885, 23878, 23871,
      23863, 23856, 23849, 23842, 23835, 23827, 23820, 23813, 23806, 23799, 23792, 23785, 23777, 23770, 23763, 23756, 23749, 23742, 23735, 23728,
      23721, 23714, 23707, 23700, 23693, 23686, 23679, 23672, 23665, 23658, 23651, 23644, 23637, 23630, 23623, 23617, 23610, 23603, 23596, 23589,
      23582, 23575, 23569, 23562, 23555, 23548, 23541, 23535, 23528, 23521, 23514, 23508, 23501, 23494, 23487, 23481, 23474, 23467, 23461, 23454,
      23447, 23441, 23434, 23427, 23421, 23414, 23407, 23401, 23394, 23388, 23381, 23374, 23368, 23361, 23355, 23348, 23342, 23335, 23329, 23322,
      23316, 23309, 23303, 23296, 23290, 23283, 23277, 23270, 23264, 23257, 23251, 23245, 23238, 23232, 23225, 23219, 23213, 23206, 23200, 23194,
      23187, 23181, 23175, 23168, 23162, 23156, 23149, 23143, 23137, 23130, 23124, 23118, 23112, 23105, 23099, 23093, 23087, 23081, 23074, 23068,
      23062, 23056, 23050, 23043, 23037, 23031, 23025, 23019, 23013, 23006, 23000, 22994, 22988, 22982, 22976, 22970, 22964, 22958, 22952, 22945,
      22939, 22933, 22927, 22921, 22915, 22909, 22903, 22897, 22891, 22885, 22879, 22873, 22867, 22861, 22855, 22849, 22843, 22837, 22832, 22826,
      22820, 22814, 22808, 22802, 22796, 22790, 22784, 22778, 22773, 22767, 22761, 22755, 22749, 22743, 22737, 22732, 22726, 22720, 22714, 22708,
      22703, 22697, 22691, 22685, 22679, 22674, 22668, 22662, 22656, 22651, 22645, 22639, 22633, 22628, 22622, 22616, 22611, 22605, 22599, 22593,
      22588, 22582, 22576, 22571, 22565, 22560, 22554, 22548, 22543, 22537, 22531, 22526, 22520, 22515, 22509, 22503, 22498, 22492, 22487, 22481,
      22475, 22470, 22464, 22459, 22453, 22448, 22442, 22437, 22431, 22426, 22420, 22415, 22409, 22404, 22398, 22393, 22387, 22382, 22376, 22371,
      22365, 22360, 22354, 22349, 22344, 22338, 22333, 22327, 22322, 22316, 22311, 22306, 22300, 22295, 22289, 22284, 22279, 22273, 22268, 22263,
      22257, 22252, 22247, 22241, 22236, 22231, 22225, 22220, 22215, 22209, 22204, 22199, 22193, 22188, 22183, 22178, 22172, 22167, 22162, 22157,
      22151, 22146, 22141, 22136, 22130, 22125, 22120, 22115, 22109, 22104, 22099, 22094, 22089, 22083, 22078, 22073, 22068, 22063, 22058, 22052,
      22047, 22042, 22037, 22032, 22027, 22022, 22016, 22011, 22006, 22001, 21996, 21991, 21986, 21981, 21976, 21971, 21965, 21960, 21955, 21950,
      21945, 21940, 21935, 21930, 21925, 21920, 21915, 21910, 21905, 21900, 21895, 21890, 21885, 21880, 21875, 21870, 21865, 21860, 21855, 21850,
      21845, 21840, 21835, 21830, 21825, 21820, 21815, 21810, 21805, 21800, 21795, 21790, 21785, 21780, 21776, 21771, 21766, 21761, 21756, 21751,
      21746, 21741, 21736, 21731, 21727, 21722, 21717, 21712, 21707, 21702, 21697, 21693, 21688, 21683, 21678, 21673, 21668, 21664, 21659, 21654,
      21649, 21644, 21639, 21635, 21630, 21625, 21620, 21615, 21611, 21606, 21601, 21596, 21592, 21587, 21582, 21577, 21573, 21568, 21563, 21558,
      21554, 21549, 21544, 21539, 21535, 21530, 21525, 21521, 21516, 21511, 21506, 21502, 21497, 21492, 21488, 21483, 21478, 21474, 21469, 21464,
      21460, 21455, 21450, 21446, 21441, 21436, 21432, 21427, 21422, 21418, 21413, 21409, 21404, 21399, 21395, 21390, 21386, 21381, 21376, 21372,
      21367, 21363, 21358, 21353, 21349, 21344, 21340, 21335, 21331, 21326, 21321, 21317, 21312, 21308, 21303, 21299, 21294, 21290, 21285, 21281,
      21276, 21272, 21267, 21263, 21258, 21254, 21249, 21245, 21240, 21236, 21231, 21227, 21222, 21218, 21213, 21209, 21204, 21200, 21195, 21191,
      21186, 21182, 21177, 21173, 21169, 21164, 21160, 21155, 21151, 21146, 21142, 21138, 21133, 21129, 21124, 21120, 21116, 21111, 21107, 21102,
      21098, 21094, 21089, 21085, 21080, 21076, 21072, 21067, 21063, 21059, 21054, 21050, 21046, 21041, 21037, 21033, 21028, 21024, 21019, 21015,
      21011, 21007, 21002, 20998, 20994, 20989, 20985, 20981, 20976, 20972, 20968, 20963, 20959, 20955, 20951, 20946, 20942, 20938, 20933, 20929,
      20925, 20921, 20916, 20912, 20908, 20904, 20899, 20895, 20891, 20887, 20882, 20878, 20874, 20870, 20865, 20861, 20857, 20853, 20849, 20844,
      20840, 20836, 20832, 20828, 20823, 20819, 20815, 20811, 20807, 20802, 20798, 20794, 20790, 20786, 20781, 20777, 20773, 20769, 20765, 20761,
      20757, 20752, 20748, 20744, 20740, 20736, 20732, 20728, 20723, 20719, 20715, 20711, 20707, 20703, 20699, 20695, 20690, 20686, 20682, 20678,
      20674, 20670, 20666, 20662, 20658, 20654, 20649, 20645, 20641, 20637, 20633, 20629, 20625, 20621, 20617, 20613, 20609, 20605, 20601, 20597,
      20593, 20588, 20584, 20580, 20576, 20572, 20568, 20564, 20560, 20556, 20552, 20548, 20544, 20540, 20536, 20532, 20528, 20524, 20520, 20516,
      20512, 20508, 20504, 20500, 20496, 20492, 20488, 20484, 20480, 20476, 20472, 20468, 20464, 20460, 20456, 20452, 20448, 20445, 20441, 20437,
      20433, 20429, 20425, 20421, 20417, 20413, 20409, 20405, 20401, 20397, 20393, 20389, 20385, 20382, 20378, 20374, 20370, 20366, 20362, 20358,
      20354, 20350, 20346, 20343, 20339, 20335, 20331, 20327, 20323, 20319, 20315, 20311, 20308, 20304, 20300, 20296, 20292, 20288, 20284, 20281,
      20277, 20273, 20269, 20265, 20261, 20257, 20254, 20250, 20246, 20242, 20238, 20234, 20231, 20227, 20223, 20219, 20215, 20212, 20208, 20204,
      20200, 20196, 20192, 20189, 20185, 20181, 20177, 20174, 20170, 20166, 20162, 20158, 20155, 20151, 20147, 20143, 20139, 20136, 20132, 20128,
      20124, 20121, 20117, 20113, 20109, 20106, 20102, 20098, 20094, 20091, 20087, 20083, 20079, 20076, 20072, 20068, 20064, 20061, 20057, 20053,
      20050, 20046, 20042, 20038, 20035, 20031, 20027, 20024, 20020, 20016, 20012, 20009, 20005, 20001, 19998, 19994, 19990, 19987, 19983, 19979,
      19975, 19972, 19968, 19964, 19961, 19957, 19953, 19950, 19946, 19942, 19939, 19935, 19931, 19928, 19924, 19920, 19917, 19913, 19910, 19906,
      19902, 19899, 19895, 19891, 19888, 19884, 19880, 19877, 19873, 19870, 19866, 19862, 19859, 19855, 19851, 19848, 19844, 19841, 19837, 19833,
      19830, 19826, 19823, 19819, 19815, 19812, 19808, 19805, 19801, 19797, 19794, 19790, 19787, 19783, 19780, 19776, 19772, 19769, 19765, 19762,
      19758, 19755, 19751, 19747, 19744, 19740, 19737, 19733, 19730, 19726, 19723, 19719, 19716, 19712, 19708, 19705, 19701, 19698, 19694, 19691,
      19687, 19684, 19680, 19677, 19673, 19670, 19666, 19663, 19659, 19656, 19652, 19649, 19645, 19642, 19638, 19635, 19631, 19628, 19624, 19621,
      19617, 19614, 19610, 19607, 19603, 19600, 19596, 19593, 19589, 19586, 19582, 19579, 19575, 19572, 19568, 19565, 19561, 19558, 19555, 19551,
      19548, 19544, 19541, 19537, 19534, 19530, 19527, 19523, 19520, 19517, 19513, 19510, 19506, 19503, 19499, 19496, 19493, 19489, 19486, 19482,
      19479, 19475, 19472, 19469, 19465, 19462, 19458, 19455, 19451, 19448, 19445, 19441, 19438, 19434, 19431, 19428, 19424, 19421, 19417, 19414,
      19411, 19407, 19404, 19401, 19397, 19394, 19390, 19387, 19384, 19380, 19377, 19374, 19370, 19367, 19363, 19360, 19357, 19353, 19350, 19347,
      19343, 19340, 19337, 19333, 19330, 19326, 19323, 19320, 19316, 19313, 19310, 19306, 19303, 19300, 19296, 19293, 19290, 19286, 19283, 19280,
      19276, 19273, 19270, 19266, 19263, 19260, 19256, 19253, 19250, 19247, 19243, 19240, 19237, 19233, 19230, 19227, 19223, 19220, 19217, 19214,
      19210, 19207, 19204, 19200, 19197, 19194, 19190, 19187, 19184, 19181, 19177, 19174, 19171, 19168, 19164, 19161, 19158, 19154, 19151, 19148,
      19145, 19141, 19138, 19135, 19132, 19128, 19125, 19122, 19119, 19115, 19112, 19109, 19106, 19102, 19099, 19096, 19093, 19089, 19086, 19083,
      19080, 19076, 19073, 19070, 19067, 19063, 19060, 19057, 19054, 19051, 19047, 19044, 19041, 19038, 19034, 19031, 19028, 19025, 19022, 19018,
      19015, 19012, 19009, 19006, 19002, 18999, 18996, 18993, 18990, 18986, 18983, 18980, 18977, 18974, 18970, 18967, 18964, 18961, 18958, 18955,
      18951, 18948, 18945, 18942, 18939, 18935, 18932, 18929, 18926, 18923, 18920, 18916, 18913, 18910, 18907, 18904, 18901, 18898, 18894, 18891,
      18888, 18885, 18882, 18879, 18875, 18872, 18869, 18866, 18863, 18860, 18857, 18853, 18850, 18847, 18844, 18841, 18838, 18835, 18832, 18828,
      18825, 18822, 18819, 18816, 18813, 18810, 18807, 18803, 18800, 18797, 18794, 18791, 18788, 18785, 18782, 18779, 18775, 18772, 18769, 18766,
      18763, 18760, 18757, 18754, 18751, 18748, 18744, 18741, 18738, 18735, 18732, 18729, 18726, 18723, 18720, 18717, 18714, 18711, 18707, 18704,
      18701, 18698, 18695, 18692, 18689, 18686, 18683, 18680, 18677, 18674, 18671, 18668, 18665, 18661, 18658, 18655, 18652, 18649, 18646, 18643,
      18640, 18637, 18634, 18631, 18628, 18625, 18622, 18619, 18616, 18613, 18610, 18607, 18604, 18601, 18598, 18595, 18592, 18588, 18585, 18582,
      18579, 18576, 18573, 18570, 18567, 18564, 18561, 18558, 18555, 18552, 18549, 18546, 18543, 18540, 18537, 18534, 18531, 18528, 18525, 18522,
      18519, 18516, 18513, 18510, 18507, 18504, 18501, 18498, 18495, 18492, 18489, 18486, 18483, 18480, 18477, 18474, 18471, 18468, 18465, 18462,
      18459, 18456, 18453, 18450, 18448, 18445, 18442, 18439, 18436, 18433, 18430, 18427, 18424, 18421, 18418, 18415, 18412, 18409, 18406, 18403,
      18400, 18397, 18394, 18391, 18388, 18385, 18382, 18379, 18377, 18374, 18371, 18368, 18365, 18362, 18359, 18356, 18353, 18350, 18347, 18344,
      18341, 18338, 18335, 18332, 18330, 18327, 18324, 18321, 18318, 18315, 18312, 18309, 18306, 18303, 18300, 18297, 18294, 18292, 18289, 18286,
      18283, 18280, 18277, 18274, 18271, 18268, 18265, 18263, 18260, 18257, 18254, 18251, 18248, 18245, 18242, 18239, 18236, 18234, 18231, 18228,
      18225, 18222, 18219, 18216, 18213, 18210, 18208, 18205, 18202, 18199, 18196, 18193, 18190, 18187, 18185, 18182, 18179, 18176, 18173, 18170,
      18167, 18164, 18162, 18159, 18156, 18153, 18150, 18147, 18144, 18142, 18139, 18136, 18133, 18130, 18127, 18124, 18122, 18119, 18116, 18113,
      18110, 18107, 18105, 18102, 18099, 18096, 18093, 18090, 18087, 18085, 18082, 18079, 18076, 18073, 18070, 18068, 18065, 18062, 18059, 18056,
      18053, 18051, 18048, 18045, 18042, 18039, 18037, 18034, 18031, 18028, 18025, 18022, 18020, 18017, 18014, 18011, 18008, 18006, 18003, 18000,
      17997, 17994, 17992, 17989, 17986, 17983, 17980, 17978, 17975, 17972, 17969, 17966, 17964, 17961, 17958, 17955, 17952, 17950, 17947, 17944,
      17941, 17938, 17936, 17933, 17930, 17927, 17925, 17922, 17919, 17916, 17913, 17911, 17908, 17905, 17902, 17900, 17897, 17894, 17891, 17888,
      17886, 17883, 17880, 17877, 17875, 17872, 17869, 17866, 17864, 17861, 17858, 17855, 17853, 17850, 17847, 17844, 17842, 17839, 17836, 17833,
      17831, 17828, 17825, 17822, 17820, 17817, 17814, 17811, 17809, 17806, 17803, 17800, 17798, 17795, 17792, 17789, 17787, 17784, 17781, 17778,
      17776, 17773, 17770, 17768, 17765, 17762, 17759, 17757, 17754, 17751, 17748, 17746, 17743, 17740, 17738, 17735, 17732, 17729, 17727, 17724,
      17721, 17719, 17716, 17713, 17710, 17708, 17705, 17702, 17700, 17697, 17694, 17691, 17689, 17686, 17683, 17681, 17678, 17675, 17673, 17670,
      17667, 17664, 17662, 17659, 17656, 17654, 17651, 17648, 17646, 17643, 17640, 17638, 17635, 17632, 17630, 17627, 17624, 17621, 17619, 17616,
      17613, 17611, 17608, 17605, 17603, 17600, 17597, 17595, 17592, 17589, 17587, 17584, 17581, 17579, 17576, 17573, 17571, 17568, 17565, 17563,
      17560, 17557, 17555, 17552, 17549, 17547, 17544, 17541, 17539, 17536, 17533, 17531, 17528, 17526, 17523, 17520, 17518, 17515, 17512, 17510,
      17507, 17504, 17502, 17499, 17496, 17494, 17491, 17489, 17486, 17483, 17481, 17478, 17475, 17473, 17470, 17467, 17465, 17462, 17460, 17457,
      17454, 17452, 17449, 17446, 17444, 17441, 17439, 17436, 17433, 17431, 17428, 17425, 17423, 17420, 17418, 17415, 17412, 17410, 17407, 17404,
      17402, 17399, 17397, 17394, 17391, 17389, 17386, 17384, 17381, 17378, 17376, 17373, 17371, 17368, 17365, 17363, 17360, 17358, 17355, 17352,
      17350, 17347, 17345, 17342, 17339, 17337, 17334, 17332, 17329, 17326, 17324, 17321, 17319, 17316, 17314, 17311, 17308, 17306, 17303, 17301,
      17298, 17295, 17293, 17290, 17288, 17285, 17283, 17280, 17277, 17275, 17272, 17270, 17267, 17265, 17262, 17259, 17257, 17254, 17252, 17249,
      17247, 17244, 17241, 17239, 17236, 17234, 17231, 17229, 17226, 17224, 17221, 17218, 17216, 17213, 17211, 17208, 17206, 17203, 17201, 17198,
      17195, 17193, 17190, 17188, 17185, 17183, 17180, 17178, 17175, 17172, 17170, 17167, 17165, 17162, 17160, 17157, 17155, 17152, 17150, 17147,
      17145, 17142, 17139, 17137, 17134, 17132, 17129, 17127, 17124, 17122, 17119, 17117, 17114, 17112, 17109, 17107, 17104, 17102, 17099, 17096,
      17094, 17091, 17089, 17086, 17084, 17081, 17079, 17076, 17074, 17071, 17069, 17066, 17064, 17061, 17059, 17056, 17054, 17051, 17049, 17046,
      17044, 17041, 17039, 17036, 17034, 17031, 17029, 17026, 17024, 17021, 17019, 17016, 17014, 17011, 17009, 17006, 17004, 17001, 16999, 16996,
      16994, 16991, 16989, 16986, 16984, 16981, 16979, 16976, 16974, 16971, 16969, 16966, 16964, 16961, 16959, 16956, 16954, 16951, 16949, 16946,
      16944, 16941, 16939, 16936, 16934, 16932, 16929, 16927, 16924, 16922, 16919, 16917, 16914, 16912, 16909, 16907, 16904, 16902, 16899, 16897,
      16894, 16892, 16890, 16887, 16885, 16882, 16880, 16877, 16875, 16872, 16870, 16867, 16865, 16862, 16860, 16858, 16855, 16853, 16850, 16848,
      16845, 16843, 16840, 16838, 16835, 16833, 16831, 16828, 16826, 16823, 16821, 16818, 16816, 16813, 16811, 16809, 16806, 16804, 16801, 16799,
      16796, 16794, 16791, 16789, 16787, 16784, 16782, 16779, 16777, 16774, 16772, 16770, 16767, 16765, 16762, 16760, 16757, 16755, 16753, 16750,
      16748, 16745, 16743, 16740, 16738, 16736, 16733, 16731, 16728, 16726, 16723, 16721, 16719, 16716, 16714, 16711, 16709, 16707, 16704, 16702,
      16699, 16697, 16694, 16692, 16690, 16687, 16685, 16682, 16680, 16678, 16675, 16673, 16670, 16668, 16666, 16663, 16661, 16658, 16656, 16653,
      16651, 16649, 16646, 16644, 16641, 16639, 16637, 16634, 16632, 16629, 16627, 16625, 16622, 16620, 16618, 16615, 16613, 16610, 16608, 16606,
      16603, 16601, 16598, 16596, 16594, 16591, 16589, 16586, 16584, 16582, 16579, 16577, 16575, 16572, 16570, 16567, 16565, 16563, 16560, 16558,
      16555, 16553, 16551, 16548, 16546, 16544, 16541, 16539, 16536, 16534, 16532, 16529, 16527, 16525, 16522, 16520, 16518, 16515, 16513, 16510,
      16508, 16506, 16503, 16501, 16499, 16496, 16494, 16491, 16489, 16487, 16484, 16482, 16480, 16477, 16475, 16473, 16470, 16468, 16466, 16463,
      16461, 16458, 16456, 16454, 16451, 16449, 16447, 16444, 16442, 16440, 16437, 16435, 16433, 16430, 16428, 16426, 16423, 16421, 16419, 16416,
      16414, 16412, 16409, 16407, 16404, 16402, 16400, 16397, 16395, 16393, 16390, 16388, 16386, 16383, 16381, 16379, 16376, 16374, 16372, 16369,
      16367, 16365, 16362, 16360, 16358, 16355, 16353, 16351, 16348, 16346, 16344, 16341, 16339, 16337, 16335, 16332, 16330, 16328, 16325, 16323,
      16321, 16318, 16316, 16314, 16311, 16309, 16307, 16304, 16302, 16300, 16297, 16295, 16293, 16290, 16288, 16286, 16284, 16281, 16279, 16277,
      16274, 16272, 16270, 16267, 16265, 16263, 16260, 16258, 16256, 16253, 16251, 16249, 16247, 16244, 16242, 16240, 16237, 16235, 16233, 16230,
      16228, 16226, 16224, 16221, 16219, 16217, 16214, 16212, 16210, 16208, 16205, 16203, 16201, 16198, 16196, 16194, 16191, 16189, 16187, 16185,
      16182, 16180, 16178, 16175, 16173, 16171, 16169, 16166, 16164, 16162, 16159, 16157, 16155, 16153, 16150, 16148, 16146, 16143, 16141, 16139,
      16137, 16134, 16132, 16130, 16128, 16125, 16123, 16121, 16118, 16116, 16114, 16112, 16109, 16107, 16105, 16103, 16100, 16098, 16096, 16093,
      16091, 16089, 16087, 16084, 16082, 16080, 16078, 16075, 16073, 16071, 16069, 16066, 16064, 16062, 16059, 16057, 16055, 16053, 16050, 16048,
      16046, 16044, 16041, 16039, 16037, 16035, 16032, 16030, 16028, 16026, 16023, 16021, 16019, 16017, 16014, 16012, 16010, 16008, 16005, 16003,
      16001, 15999, 15996, 15994, 15992, 15990, 15987, 15985, 15983, 15981, 15978, 15976, 15974, 15972, 15969, 15967, 15965, 15963, 15960, 15958,
      15956, 15954, 15951, 15949, 15947, 15945, 15943, 15940, 15938, 15936, 15934, 15931, 15929, 15927, 15925, 15922, 15920, 15918, 15916, 15914,
      15911, 15909, 15907, 15905, 15902, 15900, 15898, 15896, 15893, 15891, 15889, 15887, 15885, 15882, 15880, 15878, 15876, 15873, 15871, 15869,
      15867, 15865, 15862, 15860, 15858, 15856, 15854, 15851, 15849, 15847, 15845, 15842, 15840, 15838, 15836, 15834, 15831, 15829, 15827, 15825,
      15823, 15820, 15818, 15816, 15814, 15811, 15809, 15807, 15805, 15803, 15800, 15798, 15796, 15794, 15792, 15789, 15787, 15785, 15783, 15781,
      15778, 15776, 15774, 15772, 15770, 15767, 15765, 15763, 15761, 15759, 15756, 15754, 15752, 15750, 15748, 15745, 15743, 15741, 15739, 15737,
      15735, 15732, 15730, 15728, 15726, 15724, 15721, 15719, 15717, 15715, 15713, 15710, 15708, 15706, 15704, 15702, 15700, 15697, 15695, 15693,
      15691, 15689, 15686, 15684, 15682, 15680, 15678, 15676, 15673, 15671, 15669, 15667, 15665, 15662, 15660, 15658, 15656, 15654, 15652, 15649,
      15647, 15645, 15643, 15641, 15639, 15636, 15634, 15632, 15630, 15628, 15625, 15623, 15621, 15619, 15617, 15615, 15612, 15610, 15608, 15606,
      15604, 15602, 15599, 15597, 15595, 15593, 15591, 15589, 15587, 15584, 15582, 15580, 15578, 15576, 15574, 15571, 15569, 15567, 15565, 15563,
      15561, 15558, 15556, 15554, 15552, 15550, 15548, 15546, 15543, 15541, 15539, 15537, 15535, 15533, 15530, 15528, 15526, 15524, 15522, 15520,
      15518, 15515, 15513, 15511, 15509, 15507, 15505, 15503, 15500, 15498, 15496, 15494, 15492, 15490, 15488, 15485, 15483, 15481, 15479, 15477,
      15475, 15473, 15470, 15468, 15466, 15464, 15462, 15460, 15458, 15455, 15453, 15451, 15449, 15447, 15445, 15443, 15440, 15438, 15436, 15434,
      15432, 15430, 15428, 15426, 15423, 15421, 15419, 15417, 15415, 15413, 15411, 15409, 15406, 15404, 15402, 15400, 15398, 15396, 15394, 15392,
      15389, 15387, 15385, 15383, 15381, 15379, 15377, 15375, 15372, 15370, 15368, 15366, 15364, 15362, 15360, 15358, 15355, 15353, 15351, 15349,
      15347, 15345, 15343, 15341, 15339, 15336, 15334, 15332, 15330, 15328, 15326, 15324, 15322, 15320, 15317, 15315, 15313, 15311, 15309, 15307,
      15305, 15303, 15301, 15298, 15296, 15294, 15292, 15290, 15288, 15286, 15284, 15282, 15280, 15277, 15275, 15273, 15271, 15269, 15267, 15265,
      15263, 15261, 15259, 15256, 15254, 15252, 15250, 15248, 15246, 15244, 15242, 15240, 15238, 15235, 15233, 15231, 15229, 15227, 15225, 15223,
      15221, 15219, 15217, 15215, 15212, 15210, 15208, 15206, 15204, 15202, 15200, 15198, 15196, 15194, 15192, 15189, 15187, 15185, 15183, 15181,
      15179, 15177, 15175, 15173, 15171, 15169, 15167, 15164, 15162, 15160, 15158, 15156, 15154, 15152, 15150, 15148, 15146, 15144, 15142, 15139,
      15137, 15135, 15133, 15131, 15129, 15127, 15125, 15123, 15121, 15119, 15117, 15115, 15112, 15110, 15108, 15106, 15104, 15102, 15100, 15098,
      15096, 15094, 15092, 15090, 15088, 15086, 15084, 15081, 15079, 15077, 15075, 15073, 15071, 15069, 15067, 15065, 15063, 15061, 15059, 15057,
      15055, 15053, 15050, 15048, 15046, 15044, 15042, 15040, 15038, 15036, 15034, 15032, 15030, 15028, 15026, 15024, 15022, 15020, 15018, 15015,
      15013, 15011, 15009, 15007, 15005, 15003, 15001, 14999, 14997, 14995, 14993, 14991, 14989, 14987, 14985, 14983, 14981, 14979, 14976, 14974,
      14972, 14970, 14968, 14966, 14964, 14962, 14960, 14958, 14956, 14954, 14952, 14950, 14948, 14946, 14944, 14942, 14940, 14938, 14936, 14933,
      14931, 14929, 14927, 14925, 14923, 14921, 14919, 14917, 14915, 14913, 14911, 14909, 14907, 14905, 14903, 14901, 14899, 14897, 14895, 14893,
      14891, 14889, 14887, 14885, 14883, 14881, 14878, 14876, 14874, 14872, 14870, 14868, 14866, 14864, 14862, 14860, 14858, 14856, 14854, 14852,
      14850, 14848, 14846, 14844, 14842, 14840, 14838, 14836, 14834, 14832, 14830, 14828, 14826, 14824, 14822, 14820, 14818, 14816, 14814, 14812,
      14810, 14808, 14806, 14803, 14801, 14799, 14797, 14795, 14793, 14791, 14789, 14787, 14785, 14783, 14781, 14779, 14777, 14775, 14773, 14771,
      14769, 14767, 14765, 14763, 14761, 14759, 14757, 14755, 14753, 14751, 14749, 14747, 14745, 14743, 14741, 14739, 14737, 14735, 14733, 14731,
      14729, 14727, 14725, 14723, 14721, 14719, 14717, 14715, 14713, 14711, 14709, 14707, 14705, 14703, 14701, 14699, 14697, 14695, 14693, 14691,
      14689, 14687, 14685, 14683, 14681, 14679, 14677, 14675, 14673, 14671, 14669, 14667, 14665, 14663, 14661, 14659, 14657, 14655, 14653, 14651,
      14649, 14647, 14645, 14643, 14641, 14639, 14637, 14635, 14633, 14631, 14629, 14627, 14625, 14623, 14621, 14619, 14617, 14615, 14613, 14611,
      14609, 14607, 14605, 14603, 14601, 14599, 14597, 14595, 14593, 14591, 14589, 14587, 14585, 14583, 14581, 14579, 14577, 14575, 14573, 14571,
      14569, 14567, 14565, 14563, 14561, 14559, 14557, 14555, 14553, 14551, 14549, 14547, 14545, 14543, 14542, 14540, 14538, 14536, 14534, 14532,
      14530, 14528, 14526, 14524, 14522, 14520, 14518, 14516, 14514, 14512, 14510, 14508, 14506, 14504, 14502, 14500, 14498, 14496, 14494, 14492,
      14490, 14488, 14486, 14484, 14482, 14480, 14478, 14476, 14474, 14472, 14470, 14468, 14467, 14465, 14463, 14461, 14459, 14457, 14455, 14453,
      14451, 14449, 14447, 14445, 14443, 14441, 14439, 14437, 14435, 14433, 14431, 14429, 14427, 14425, 14423, 14421, 14419, 14417, 14415, 14413,
      14412, 14410, 14408, 14406, 14404, 14402, 14400, 14398, 14396, 14394, 14392, 14390, 14388, 14386, 14384, 14382, 14380, 14378, 14376, 14374,
      14372, 14370, 14368, 14367, 14365, 14363, 14361, 14359, 14357, 14355, 14353, 14351, 14349, 14347, 14345, 14343, 14341, 14339, 14337, 14335,
      14333, 14331, 14329, 14327, 14326, 14324, 14322, 14320, 14318, 14316, 14314, 14312, 14310, 14308, 14306, 14304, 14302, 14300, 14298, 14296,
      14294, 14292, 14291, 14289, 14287, 14285, 14283, 14281, 14279, 14277, 14275, 14273, 14271, 14269, 14267, 14265, 14263, 14261, 14259, 14258,
      14256, 14254, 14252, 14250, 14248, 14246, 14244, 14242, 14240, 14238, 14236, 14234, 14232, 14230, 14229, 14227, 14225, 14223, 14221, 14219,
      14217, 14215, 14213, 14211, 14209, 14207, 14205, 14203, 14201, 14200, 14198, 14196, 14194, 14192, 14190, 14188, 14186, 14184, 14182, 14180,
      14178, 14176, 14174, 14173, 14171, 14169, 14167, 14165, 14163, 14161, 14159, 14157, 14155, 14153, 14151, 14149, 14148, 14146, 14144, 14142,
      14140, 14138, 14136, 14134, 14132, 14130, 14128, 14126, 14124, 14123, 14121, 14119, 14117, 14115, 14113, 14111, 14109, 14107, 14105, 14103,
      14101, 14100, 14098, 14096, 14094, 14092, 14090, 14088, 14086, 14084, 14082, 14080, 14078, 14077, 14075, 14073, 14071, 14069, 14067, 14065,
      14063, 14061, 14059, 14057, 14056, 14054, 14052, 14050, 14048, 14046, 14044, 14042, 14040, 14038, 14036, 14035, 14033, 14031, 14029, 14027,
      14025, 14023, 14021, 14019, 14017, 14015, 14014, 14012, 14010, 14008, 14006, 14004, 14002, 14000, 13998, 13996, 13995, 13993, 13991, 13989,
      13987, 13985, 13983, 13981, 13979, 13977, 13975, 13974, 13972, 13970, 13968, 13966, 13964, 13962, 13960, 13958, 13957, 13955, 13953, 13951,
      13949, 13947, 13945, 13943, 13941, 13939, 13938, 13936, 13934, 13932, 13930, 13928, 13926, 13924, 13922, 13920, 13919, 13917, 13915, 13913,
      13911, 13909, 13907, 13905, 13903, 13902, 13900, 13898, 13896, 13894, 13892, 13890, 13888, 13886, 13885, 13883, 13881, 13879, 13877, 13875,
      13873, 13871, 13869, 13868, 13866, 13864, 13862, 13860, 13858, 13856, 13854, 13853, 13851, 13849, 13847, 13845, 13843, 13841, 13839, 13837,
      13836, 13834, 13832, 13830, 13828, 13826, 13824, 13822, 13821, 13819, 13817, 13815, 13813, 13811, 13809, 13807, 13805, 13804, 13802, 13800,
      13798, 13796, 13794, 13792, 13790, 13789, 13787, 13785, 13783, 13781, 13779, 13777, 13775, 13774, 13772, 13770, 13768, 13766, 13764, 13762,
      13760, 13759, 13757, 13755, 13753, 13751, 13749, 13747, 13745, 13744, 13742, 13740, 13738, 13736, 13734, 13732, 13731, 13729, 13727, 13725,
      13723, 13721, 13719, 13717, 13716, 13714, 13712, 13710, 13708, 13706, 13704, 13702, 13701, 13699, 13697, 13695, 13693, 13691, 13689, 13688,
      13686, 13684, 13682, 13680, 13678, 13676, 13675, 13673, 13671, 13669, 13667, 13665, 13663, 13661, 13660, 13658, 13656, 13654, 13652, 13650,
      13648, 13647, 13645, 13643, 13641, 13639, 13637, 13635, 13634, 13632, 13630, 13628, 13626, 13624, 13622, 13621, 13619, 13617, 13615, 13613,
      13611, 13609, 13608, 13606, 13604, 13602, 13600, 13598, 13596, 13595, 13593, 13591, 13589, 13587, 13585, 13584, 13582, 13580, 13578, 13576,
      13574, 13572, 13571, 13569, 13567, 13565, 13563, 13561, 13559, 13558, 13556, 13554, 13552, 13550, 13548, 13547, 13545, 13543, 13541, 13539,
      13537, 13535, 13534, 13532, 13530, 13528, 13526, 13524, 13523, 13521, 13519, 13517, 13515, 13513, 13511, 13510, 13508, 13506, 13504, 13502,
      13500, 13499, 13497, 13495, 13493, 13491, 13489, 13488, 13486, 13484, 13482, 13480, 13478, 13476, 13475, 13473, 13471, 13469, 13467, 13465,
      13464, 13462, 13460, 13458, 13456, 13454, 13453, 13451, 13449, 13447, 13445, 13443, 13442, 13440, 13438, 13436, 13434, 13432, 13431, 13429,
      13427, 13425, 13423, 13421, 13420, 13418, 13416, 13414, 13412, 13410, 13409, 13407, 13405, 13403, 13401, 13399, 13398, 13396, 13394, 13392,
      13390, 13388, 13387, 13385, 13383, 13381, 13379, 13377, 13376, 13374, 13372, 13370, 13368, 13366, 13365, 13363, 13361, 13359, 13357, 13355,
      13354, 13352, 13350, 13348, 13346, 13345, 13343, 13341, 13339, 13337, 13335, 13334, 13332, 13330, 13328, 13326, 13324, 13323, 13321, 13319,
      13317, 13315, 13314, 13312, 13310, 13308, 13306, 13304, 13303, 13301, 13299, 13297, 13295, 13293, 13292, 13290, 13288, 13286, 13284, 13283,
      13281, 13279, 13277, 13275, 13273, 13272, 13270, 13268, 13266, 13264, 13263, 13261, 13259, 13257, 13255, 13253, 13252, 13250, 13248, 13246,
      13244, 13243, 13241, 13239, 13237, 13235, 13234, 13232, 13230, 13228, 13226, 13224, 13223, 13221, 13219, 13217, 13215, 13214, 13212, 13210,
      13208, 13206, 13205, 13203, 13201, 13199, 13197, 13195, 13194, 13192, 13190, 13188, 13186, 13185, 13183, 13181, 13179, 13177, 13176, 13174,
      13172, 13170, 13168, 13167, 13165, 13163, 13161, 13159, 13157, 13156, 13154, 13152, 13150, 13148, 13147, 13145, 13143, 13141, 13139, 13138,
      13136, 13134, 13132, 13130, 13129, 13127, 13125, 13123, 13121, 13120, 13118, 13116, 13114, 13112, 13111, 13109, 13107, 13105, 13103, 13102,
      13100, 13098, 13096, 13094, 13093, 13091, 13089, 13087, 13085, 13084, 13082, 13080, 13078, 13076, 13075, 13073, 13071, 13069, 13067, 13066,
      13064, 13062, 13060, 13058, 13057, 13055, 13053, 13051, 13049, 13048, 13046, 13044, 13042, 13040, 13039, 13037, 13035, 13033, 13031, 13030,
      13028, 13026, 13024, 13023, 13021, 13019, 13017, 13015, 13014, 13012, 13010, 13008, 13006, 13005, 13003, 13001, 12999, 12997, 12996, 12994,
      12992, 12990, 12988, 12987, 12985, 12983, 12981, 12980, 12978, 12976, 12974, 12972, 12971, 12969, 12967, 12965, 12963, 12962, 12960, 12958,
      12956, 12955, 12953, 12951, 12949, 12947, 12946, 12944, 12942, 12940, 12938, 12937, 12935, 12933, 12931, 12930, 12928, 12926, 12924, 12922,
      12921, 12919, 12917, 12915, 12913, 12912, 12910, 12908, 12906, 12905, 12903, 12901, 12899, 12897, 12896, 12894, 12892, 12890, 12889, 12887,
      12885, 12883, 12881, 12880, 12878, 12876, 12874, 12873, 12871, 12869, 12867, 12865, 12864, 12862, 12860, 12858, 12857, 12855, 12853, 12851,
      12849, 12848, 12846, 12844, 12842, 12841, 12839, 12837, 12835, 12833, 12832, 12830, 12828, 12826, 12825, 12823, 12821, 12819, 12817, 12816,
      12814, 12812, 12810, 12809, 12807, 12805, 12803, 12801, 12800, 12798, 12796, 12794, 12793, 12791, 12789, 12787, 12786, 12784, 12782, 12780,
      12778, 12777, 12775, 12773, 12771, 12770, 12768, 12766, 12764, 12763, 12761, 12759, 12757, 12755, 12754, 12752, 12750, 12748, 12747, 12745,
      12743, 12741, 12740, 12738, 12736, 12734, 12732, 12731, 12729, 12727, 12725, 12724, 12722, 12720, 12718, 12717, 12715, 12713, 12711, 12710,
      12708, 12706, 12704, 12702, 12701, 12699, 12697, 12695, 12694, 12692, 12690, 12688, 12687, 12685, 12683, 12681, 12680, 12678, 12676, 12674,
      12673, 12671, 12669, 12667, 12665, 12664, 12662, 12660, 12658, 12657, 12655, 12653, 12651, 12650, 12648, 12646, 12644, 12643, 12641, 12639,
      12637, 12636, 12634, 12632, 12630, 12629, 12627, 12625, 12623, 12621, 12620, 12618, 12616, 12614, 12613, 12611, 12609, 12607, 12606, 12604,
      12602, 12600, 12599, 12597, 12595, 12593, 12592, 12590, 12588, 12586, 12585, 12583, 12581, 12579, 12578, 12576, 12574, 12572, 12571, 12569,
      12567, 12565, 12564, 12562, 12560, 12558, 12557, 12555, 12553, 12551, 12550, 12548, 12546, 12544, 12543, 12541, 12539, 12537, 12536, 12534,
      12532, 12530, 12529, 12527, 12525, 12523, 12522, 12520, 12518, 12516, 12515, 12513, 12511, 12509, 12508, 12506, 12504, 12502, 12501, 12499,
      12497, 12495, 12494, 12492, 12490, 12488, 12487, 12485, 12483, 12481, 12480, 12478, 12476, 12474, 12473, 12471, 12469, 12467, 12466, 12464,
      12462, 12460, 12459, 12457, 12455, 12453, 12452, 12450, 12448, 12446, 12445, 12443, 12441, 12440, 12438, 12436, 12434, 12433, 12431, 12429,
      12427, 12426, 12424, 12422, 12420, 12419, 12417, 12415, 12413, 12412, 12410, 12408, 12406, 12405, 12403, 12401, 12399, 12398, 12396, 12394,
      12393, 12391, 12389, 12387, 12386, 12384, 12382, 12380, 12379, 12377, 12375, 12373, 12372, 12370, 12368, 12366, 12365, 12363, 12361, 12359,
      12358, 12356, 12354, 12353, 12351, 12349, 12347, 12346, 12344, 12342, 12340, 12339, 12337, 12335, 12333, 12332, 12330, 12328, 12327, 12325,
      12323, 12321, 12320, 12318, 12316, 12314, 12313, 12311, 12309, 12307, 12306, 12304, 12302, 12301, 12299, 12297, 12295, 12294, 12292, 12290,
      12288, 12287, 12285, 12283, 12281, 12280, 12278, 12276, 12275, 12273, 12271, 12269, 12268, 12266, 12264, 12262, 12261, 12259, 12257, 12256,
      12254, 12252, 12250, 12249, 12247, 12245, 12243, 12242, 12240, 12238, 12237, 12235, 12233, 12231, 12230, 12228, 12226, 12224, 12223, 12221,
      12219, 12218, 12216, 12214, 12212, 12211, 12209, 12207, 12205, 12204, 12202, 12200, 12199, 12197, 12195, 12193, 12192, 12190, 12188, 12186,
      12185, 12183, 12181, 12180, 12178, 12176, 12174, 12173, 12171, 12169, 12167, 12166, 12164, 12162, 12161, 12159, 12157, 12155, 12154, 12152,
      12150, 12149, 12147, 12145, 12143, 12142, 12140, 12138, 12136, 12135, 12133, 12131, 12130, 12128, 12126, 12124, 12123, 12121, 12119, 12118,
      12116, 12114, 12112, 12111, 12109, 12107, 12106, 12104, 12102, 12100, 12099, 12097, 12095, 12094, 12092, 12090, 12088, 12087, 12085, 12083,
      12081, 12080, 12078, 12076, 12075, 12073, 12071, 12069, 12068, 12066, 12064, 12063, 12061, 12059, 12057, 12056, 12054, 12052, 12051, 12049,
      12047, 12045, 12044, 12042, 12040, 12039, 12037, 12035, 12033, 12032, 12030, 12028, 12027, 12025, 12023, 12021, 12020, 12018, 12016, 12015,
      12013, 12011, 12009, 12008, 12006, 12004, 12003, 12001, 11999, 11997, 11996, 11994, 11992, 11991, 11989, 11987, 11985, 11984, 11982, 11980,
      11979, 11977, 11975, 11974, 11972, 11970, 11968, 11967, 11965, 11963, 11962, 11960, 11958, 11956, 11955, 11953, 11951, 11950, 11948, 11946,
      11944, 11943, 11941, 11939, 11938, 11936, 11934, 11932, 11931, 11929, 11927, 11926, 11924, 11922, 11921, 11919, 11917, 11915, 11914, 11912,
      11910, 11909, 11907, 11905, 11903, 11902, 11900, 11898, 11897, 11895, 11893, 11892, 11890, 11888, 11886, 11885, 11883, 11881, 11880, 11878,
      11876, 11874, 11873, 11871, 11869, 11868, 11866, 11864, 11863, 11861, 11859, 11857, 11856, 11854, 11852, 11851, 11849, 11847, 11846, 11844,
      11842, 11840, 11839, 11837, 11835, 11834, 11832, 11830, 11829, 11827, 11825, 11823, 11822, 11820, 11818, 11817, 11815, 11813, 11811, 11810,
      11808, 11806, 11805, 11803, 11801, 11800, 11798, 11796, 11794, 11793, 11791, 11789, 11788, 11786, 11784, 11783, 11781, 11779, 11777, 11776,
      11774, 11772, 11771, 11769, 11767, 11766, 11764, 11762, 11761, 11759, 11757, 11755, 11754, 11752, 11750, 11749, 11747, 11745, 11744, 11742,
      11740, 11738, 11737, 11735, 11733, 11732, 11730, 11728, 11727, 11725, 11723, 11721, 11720, 11718, 11716, 11715, 11713, 11711, 11710, 11708,
      11706, 11705, 11703, 11701, 11699, 11698, 11696, 11694, 11693, 11691, 11689, 11688, 11686, 11684, 11683, 11681, 11679, 11677, 11676, 11674,
      11672, 11671, 11669, 11667, 11666, 11664, 11662, 11660, 11659, 11657, 11655, 11654, 11652, 11650, 11649, 11647, 11645, 11644, 11642, 11640,
      11639, 11637, 11635, 11633, 11632, 11630, 11628, 11627, 11625, 11623, 11622, 11620, 11618, 11617, 11615, 11613, 11611, 11610, 11608, 11606,
      11605, 11603, 11601, 11600, 11598, 11596, 11595, 11593, 11591, 11589, 11588, 11586, 11584, 11583, 11581, 11579, 11578, 11576, 11574, 11573,
      11571, 11569, 11568, 11566, 11564, 11562, 11561, 11559, 11557, 11556, 11554, 11552, 11551, 11549, 11547, 11546, 11544, 11542, 11541, 11539,
      11537, 11535, 11534, 11532, 11530, 11529, 11527, 11525, 11524, 11522, 11520, 11519, 11517, 11515, 11514, 11512, 11510, 11509, 11507, 11505,
      11503, 11502, 11500, 11498, 11497, 11495, 11493, 11492, 11490, 11488, 11487, 11485, 11483, 11482, 11480, 11478, 11477, 11475, 11473, 11471,
      11470, 11468, 11466, 11465, 11463, 11461, 11460, 11458, 11456, 11455, 11453, 11451, 11450, 11448, 11446, 11445, 11443, 11441, 11440, 11438,
      11436, 11434, 11433, 11431, 11429, 11428, 11426, 11424, 11423, 11421, 11419, 11418, 11416, 11414, 11413, 11411, 11409, 11408, 11406, 11404,
      11403, 11401, 11399, 11397, 11396, 11394, 11392, 11391, 11389, 11387, 11386, 11384, 11382, 11381, 11379, 11377, 11376, 11374, 11372, 11371,
      11369, 11367, 11366, 11364, 11362, 11361, 11359, 11357, 11356, 11354, 11352, 11350, 11349, 11347, 11345, 11344, 11342, 11340, 11339, 11337,
      11335, 11334, 11332, 11330, 11329, 11327, 11325, 11324, 11322, 11320, 11319, 11317, 11315, 11314, 11312, 11310, 11309, 11307, 11305, 11304,
      11302, 11300, 11298, 11297, 11295, 11293, 11292, 11290, 11288, 11287, 11285, 11283, 11282, 11280, 11278, 11277, 11275, 11273, 11272, 11270,
      11268, 11267, 11265, 11263, 11262, 11260, 11258, 11257, 11255, 11253, 11252, 11250, 11248, 11247, 11245, 11243, 11242, 11240, 11238, 11237,
      11235, 11233, 11232, 11230, 11228, 11227, 11225, 11223, 11221, 11220, 11218, 11216, 11215, 11213, 11211, 11210, 11208, 11206, 11205, 11203,
      11201, 11200, 11198, 11196, 11195, 11193, 11191, 11190, 11188, 11186, 11185, 11183, 11181, 11180, 11178, 11176, 11175, 11173, 11171, 11170,
      11168, 11166, 11165, 11163, 11161, 11160, 11158, 11156, 11155, 11153, 11151, 11150, 11148, 11146, 11145, 11143, 11141, 11140, 11138, 11136,
      11135, 11133, 11131, 11130, 11128, 11126, 11125, 11123, 11121, 11120, 11118, 11116, 11115, 11113, 11111, 11110, 11108, 11106, 11105, 11103,
      11101, 11100, 11098, 11096, 11095, 11093, 11091, 11090, 11088, 11086, 11085, 11083, 11081, 11080, 11078, 11076, 11075, 11073, 11071, 11070,
      11068, 11066, 11065, 11063, 11061, 11060, 11058, 11056, 11055, 11053, 11051, 11050, 11048, 11046, 11045, 11043, 11041, 11040, 11038, 11036,
      11035, 11033, 11031, 11030, 11028, 11026, 11025, 11023, 11021, 11020, 11018, 11016, 11015, 11013, 11011, 11010, 11008, 11006, 11005, 11003,
      11001, 11000, 10998, 10996, 10995, 10993, 10991, 10990, 10988, 10986, 10985, 10983, 10981, 10980, 10978, 10976, 10975, 10973, 10971, 10970,
      10968, 10966, 10965, 10963, 10961, 10960, 10958, 10956, 10955, 10953, 10951, 10950, 10948, 10946, 10945, 10943, 10941, 10940, 10938, 10936,
      10935, 10933, 10931, 10930, 10928, 10926, 10925, 10923, 10921, 10920, 10918, 10916, 10915, 10913, 10911, 10910, 10908, 10906, 10905, 10903,
      10901, 10900, 10898, 10896, 10895, 10893, 10891, 10890, 10888, 10886, 10885, 10883, 10882, 10880, 10878, 10877, 10875, 10873, 10872, 10870,
      10868, 10867, 10865, 10863, 10862, 10860, 10858, 10857, 10855, 10853, 10852, 10850, 10848, 10847, 10845, 10843, 10842, 10840, 10838, 10837,
      10835, 10833, 10832, 10830, 10828, 10827, 10825, 10823, 10822, 10820, 10818, 10817, 10815, 10813, 10812, 10810, 10808, 10807, 10805, 10803,
      10802, 10800, 10798, 10797, 10795, 10794, 10792, 10790, 10789, 10787, 10785, 10784, 10782, 10780, 10779, 10777, 10775, 10774, 10772, 10770,
      10769, 10767, 10765, 10764, 10762, 10760, 10759, 10757, 10755, 10754, 10752, 10750, 10749, 10747, 10745, 10744, 10742, 10740, 10739, 10737,
      10735, 10734, 10732, 10731, 10729, 10727, 10726, 10724, 10722, 10721, 10719, 10717, 10716, 10714, 10712, 10711, 10709, 10707, 10706, 10704,
      10702, 10701, 10699, 10697, 10696, 10694, 10692, 10691, 10689, 10687, 10686, 10684, 10682, 10681, 10679, 10677, 10676, 10674, 10673, 10671,
      10669, 10668, 10666, 10664, 10663, 10661, 10659, 10658, 10656, 10654, 10653, 10651, 10649, 10648, 10646, 10644, 10643, 10641, 10639, 10638,
      10636, 10634, 10633, 10631, 10629, 10628, 10626, 10625, 10623, 10621, 10620, 10618, 10616, 10615, 10613, 10611, 10610, 10608, 10606, 10605,
      10603, 10601, 10600, 10598, 10596, 10595, 10593, 10591, 10590, 10588, 10586, 10585, 10583, 10582, 10580, 10578, 10577, 10575, 10573, 10572,
      10570, 10568, 10567, 10565, 10563, 10562, 10560, 10558, 10557, 10555, 10553, 10552, 10550, 10548, 10547, 10545, 10543, 10542, 10540, 10539,
      10537, 10535, 10534, 10532, 10530, 10529, 10527, 10525, 10524, 10522, 10520, 10519, 10517, 10515, 10514, 10512, 10510, 10509, 10507, 10505,
      10504, 10502, 10500, 10499, 10497, 10496, 10494, 10492, 10491, 10489, 10487, 10486, 10484, 10482, 10481, 10479, 10477, 10476, 10474, 10472,
      10471, 10469, 10467, 10466, 10464, 10462, 10461, 10459, 10458, 10456, 10454, 10453, 10451, 10449, 10448, 10446, 10444, 10443, 10441, 10439,
      10438, 10436, 10434, 10433, 10431, 10429, 10428, 10426, 10424, 10423, 10421, 10420, 10418, 10416, 10415, 10413, 10411, 10410, 10408, 10406,
      10405, 10403, 10401, 10400, 10398, 10396, 10395, 10393, 10391, 10390, 10388, 10386, 10385, 10383, 10382, 10380, 10378, 10377, 10375, 10373,
      10372, 10370, 10368, 10367, 10365, 10363, 10362, 10360, 10358, 10357, 10355, 10353, 10352, 10350, 10349, 10347, 10345, 10344, 10342, 10340,
      10339, 10337, 10335, 10334, 10332, 10330, 10329, 10327, 10325, 10324, 10322, 10320, 10319, 10317, 10316, 10314, 10312, 10311, 10309, 10307,
      10306, 10304, 10302, 10301, 10299, 10297, 10296, 10294, 10292, 10291, 10289, 10287, 10286, 10284, 10283, 10281, 10279, 10278, 10276, 10274,
      10273, 10271, 10269, 10268, 10266, 10264, 10263, 10261, 10259, 10258, 10256, 10254, 10253, 10251, 10250, 10248, 10246, 10245, 10243, 10241,
      10240, 10238, 10236, 10235, 10233, 10231, 10230, 10228, 10226, 10225, 10223, 10221, 10220, 10218, 10217, 10215, 10213, 10212, 10210, 10208,
      10207, 10205, 10203, 10202, 10200, 10198, 10197, 10195, 10193, 10192, 10190, 10188, 10187, 10185, 10184, 10182, 10180, 10179, 10177, 10175,
      10174, 10172, 10170, 10169, 10167, 10165, 10164, 10162, 10160, 10159, 10157, 10155, 10154, 10152, 10151, 10149, 10147, 10146, 10144, 10142,
      10141, 10139, 10137, 10136, 10134, 10132, 10131, 10129, 10127, 10126, 10124, 10123, 10121, 10119, 10118, 10116, 10114, 10113, 10111, 10109,
      10108, 10106, 10104, 10103, 10101, 10099, 10098, 10096, 10094, 10093, 10091, 10090, 10088, 10086, 10085, 10083, 10081, 10080, 10078, 10076,
      10075, 10073, 10071, 10070, 10068, 10066, 10065, 10063, 10062, 10060, 10058, 10057, 10055, 10053, 10052, 10050, 10048, 10047, 10045, 10043,
      10042, 10040, 10038, 10037, 10035, 10033, 10032, 10030, 10029, 10027, 10025, 10024, 10022, 10020, 10019, 10017, 10015, 10014, 10012, 10010,
      10009, 10007, 10005, 10004, 10002, 10001, 9999, 9997, 9996, 9994, 9992, 9991, 9989, 9987, 9986, 9984, 9982, 9981, 9979, 9977,
      9976, 9974, 9972, 9971, 9969, 9968, 9966, 9964, 9963, 9961, 9959, 9958, 9956, 9954, 9953, 9951, 9949, 9948, 9946, 9944,
      9943, 9941, 9940, 9938, 9936, 9935, 9933, 9931, 9930, 9928, 9926, 9925, 9923, 9921, 9920, 9918, 9916, 9915, 9913, 9911,
      9910, 9908, 9907, 9905, 9903, 9902, 9900, 9898, 9897, 9895, 9893, 9892, 9890, 9888, 9887, 9885, 9883, 9882, 9880, 9878,
      9877, 9875, 9874, 9872, 9870, 9869, 9867, 9865, 9864, 9862, 9860, 9859, 9857, 9855, 9854, 9852, 9850, 9849, 9847, 9846,
      9844, 9842, 9841, 9839, 9837, 9836, 9834, 9832, 9831, 9829, 9827, 9826, 9824, 9822, 9821, 9819, 9817, 9816, 9814, 9813,
      9811, 9809, 9808, 9806, 9804, 9803, 9801, 9799, 9798, 9796, 9794, 9793, 9791, 9789, 9788, 9786, 9784, 9783, 9781, 9780,
      9778, 9776, 9775, 9773, 9771, 9770, 9768, 9766, 9765, 9763, 9761, 9760, 9758, 9756, 9755, 9753, 9751, 9750, 9748, 9747,
      9745, 9743, 9742, 9740, 9738, 9737, 9735, 9733, 9732, 9730, 9728, 9727, 9725, 9723, 9722, 9720, 9718, 9717, 9715, 9714,
      9712, 9710, 9709, 9707, 9705, 9704, 9702, 9700, 9699, 9697, 9695, 9694, 9692, 9690, 9689, 9687, 9685, 9684, 9682, 9681,
      9679, 9677, 9676, 9674, 9672, 9671, 9669, 9667, 9666, 9664, 9662, 9661, 9659, 9657, 9656, 9654, 9652, 9651, 9649, 9648,
      9646, 9644, 9643, 9641, 9639, 9638, 9636, 9634, 9633, 9631, 9629, 9628, 9626, 9624, 9623, 9621, 9619, 9618, 9616, 9615,
      9613, 9611, 9610, 9608, 9606, 9605, 9603, 9601, 9600, 9598, 9596, 9595, 9593, 9591, 9590, 9588, 9586, 9585, 9583, 9581,
      9580, 9578, 9577, 9575, 9573, 9572, 9570, 9568, 9567, 9565, 9563, 9562, 9560, 9558, 9557, 9555, 9553, 9552, 9550, 9548,
      9547, 9545, 9543, 9542, 9540, 9539, 9537, 9535, 9534, 9532, 9530, 9529, 9527, 9525, 9524, 9522, 9520, 9519, 9517, 9515,
      9514, 9512, 9510, 9509, 9507, 9505, 9504, 9502, 9501, 9499, 9497, 9496, 9494, 9492, 9491, 9489, 9487, 9486, 9484, 9482,
      9481, 9479, 9477, 9476, 9474, 9472, 9471, 9469, 9467, 9466, 9464, 9462, 9461, 9459, 9458, 9456, 9454, 9453, 9451, 9449,
      9448, 9446, 9444, 9443, 9441, 9439, 9438, 9436, 9434, 9433, 9431, 9429, 9428, 9426, 9424, 9423, 9421, 9419, 9418, 9416,
      9415, 9413, 9411, 9410, 9408, 9406, 9405, 9403, 9401, 9400, 9398, 9396, 9395, 9393, 9391, 9390, 9388, 9386, 9385, 9383,
      9381, 9380, 9378, 9376, 9375, 9373, 9372, 9370, 9368, 9367, 9365, 9363, 9362, 9360, 9358, 9357, 9355, 9353, 9352, 9350,
      9348, 9347, 9345, 9343, 9342, 9340, 9338, 9337, 9335, 9333, 9332, 9330, 9328, 9327, 9325, 9323, 9322, 9320, 9319, 9317,
      9315, 9314, 9312, 9310, 9309, 9307, 9305, 9304, 9302, 9300, 9299, 9297, 9295, 9294, 9292, 9290, 9289, 9287, 9285, 9284,
      9282, 9280, 9279, 9277, 9275, 9274, 9272, 9270, 9269, 9267, 9265, 9264, 9262, 9261, 9259, 9257, 9256, 9254, 9252, 9251,
      9249, 9247, 9246, 9244, 9242, 9241, 9239, 9237, 9236, 9234, 9232, 9231, 9229, 9227, 9226, 9224, 9222, 9221, 9219, 9217,
      9216, 9214, 9212, 9211, 9209, 9207, 9206, 9204, 9202, 9201, 9199, 9197, 9196, 9194, 9192, 9191, 9189, 9188, 9186, 9184,
      9183, 9181, 9179, 9178, 9176, 9174, 9173, 9171, 9169, 9168, 9166, 9164, 9163, 9161, 9159, 9158, 9156, 9154, 9153, 9151,
      9149, 9148, 9146, 9144, 9143, 9141, 9139, 9138, 9136, 9134, 9133, 9131, 9129, 9128, 9126, 9124, 9123, 9121, 9119, 9118,
      9116, 9114, 9113, 9111, 9109, 9108, 9106, 9104, 9103, 9101, 9099, 9098, 9096, 9094, 9093, 9091, 9089, 9088, 9086, 9085,
      9083, 9081, 9080, 9078, 9076, 9075, 9073, 9071, 9070, 9068, 9066, 9065, 9063, 9061, 9060, 9058, 9056, 9055, 9053, 9051,
      9050, 9048, 9046, 9045, 9043, 9041, 9040, 9038, 9036, 9035, 9033, 9031, 9030, 9028, 9026, 9025, 9023, 9021, 9020, 9018,
      9016, 9015, 9013, 9011, 9010, 9008, 9006, 9005, 9003, 9001, 9000, 8998, 8996, 8995, 8993, 8991, 8990, 8988, 8986, 8985,
      8983, 8981, 8980, 8978, 8976, 8975, 8973, 8971, 8970, 8968, 8966, 8965, 8963, 8961, 8960, 8958, 8956, 8955, 8953, 8951,
      8950, 8948, 8946, 8945, 8943, 8941, 8940, 8938, 8936, 8935, 8933, 8931, 8930, 8928, 8926, 8925, 8923, 8921, 8920, 8918,
      8916, 8915, 8913, 8911, 8910, 8908, 8906, 8905, 8903, 8901, 8900, 8898, 8896, 8895, 8893, 8891, 8890, 8888, 8886, 8885,
      8883, 8881, 8880, 8878, 8876, 8874, 8873, 8871, 8869, 8868, 8866, 8864, 8863, 8861, 8859, 8858, 8856, 8854, 8853, 8851,
      8849, 8848, 8846, 8844, 8843, 8841, 8839, 8838, 8836, 8834, 8833, 8831, 8829, 8828, 8826, 8824, 8823, 8821, 8819, 8818,
      8816, 8814, 8813, 8811, 8809, 8808, 8806, 8804, 8803, 8801, 8799, 8798, 8796, 8794, 8793, 8791, 8789, 8788, 8786, 8784,
      8783, 8781, 8779, 8777, 8776, 8774, 8772, 8771, 8769, 8767, 8766, 8764, 8762, 8761, 8759, 8757, 8756, 8754, 8752, 8751,
      8749, 8747, 8746, 8744, 8742, 8741, 8739, 8737, 8736, 8734, 8732, 8731, 8729, 8727, 8726, 8724, 8722, 8721, 8719, 8717,
      8715, 8714, 8712, 8710, 8709, 8707, 8705, 8704, 8702, 8700, 8699, 8697, 8695, 8694, 8692, 8690, 8689, 8687, 8685, 8684,
      8682, 8680, 8679, 8677, 8675, 8674, 8672, 8670, 8668, 8667, 8665, 8663, 8662, 8660, 8658, 8657, 8655, 8653, 8652, 8650,
      8648, 8647, 8645, 8643, 8642, 8640, 8638, 8637, 8635, 8633, 8632, 8630, 8628, 8626, 8625, 8623, 8621, 8620, 8618, 8616,
      8615, 8613, 8611, 8610, 8608, 8606, 8605, 8603, 8601, 8600, 8598, 8596, 8594, 8593, 8591, 8589, 8588, 8586, 8584, 8583,
      8581, 8579, 8578, 8576, 8574, 8573, 8571, 8569, 8568, 8566, 8564, 8562, 8561, 8559, 8557, 8556, 8554, 8552, 8551, 8549,
      8547, 8546, 8544, 8542, 8541, 8539, 8537, 8536, 8534, 8532, 8530, 8529, 8527, 8525, 8524, 8522, 8520, 8519, 8517, 8515,
      8514, 8512, 8510, 8509, 8507, 8505, 8503, 8502, 8500, 8498, 8497, 8495, 8493, 8492, 8490, 8488, 8487, 8485, 8483, 8482,
      8480, 8478, 8476, 8475, 8473, 8471, 8470, 8468, 8466, 8465, 8463, 8461, 8460, 8458, 8456, 8454, 8453, 8451, 8449, 8448,
      8446, 8444, 8443, 8441, 8439, 8438, 8436, 8434, 8432, 8431, 8429, 8427, 8426, 8424, 8422, 8421, 8419, 8417, 8416, 8414,
      8412, 8410, 8409, 8407, 8405, 8404, 8402, 8400, 8399, 8397, 8395, 8394, 8392, 8390, 8388, 8387, 8385, 8383, 8382, 8380,
      8378, 8377, 8375, 8373, 8371, 8370, 8368, 8366, 8365, 8363, 8361, 8360, 8358, 8356, 8355, 8353, 8351, 8349, 8348, 8346,
      8344, 8343, 8341, 8339, 8338, 8336, 8334, 8332, 8331, 8329, 8327, 8326, 8324, 8322, 8321, 8319, 8317, 8315, 8314, 8312,
      8310, 8309, 8307, 8305, 8304, 8302, 8300, 8298, 8297, 8295, 8293, 8292, 8290, 8288, 8287, 8285, 8283, 8281, 8280, 8278,
      8276, 8275, 8273, 8271, 8270, 8268, 8266, 8264, 8263, 8261, 8259, 8258, 8256, 8254, 8253, 8251, 8249, 8247, 8246, 8244,
      8242, 8241, 8239, 8237, 8235, 8234, 8232, 8230, 8229, 8227, 8225, 8224, 8222, 8220, 8218, 8217, 8215, 8213, 8212, 8210,
      8208, 8206, 8205, 8203, 8201, 8200, 8198, 8196, 8195, 8193, 8191, 8189, 8188, 8186, 8184, 8183, 8181, 8179, 8177, 8176,
      8174, 8172, 8171, 8169, 8167, 8166, 8164, 8162, 8160, 8159, 8157, 8155, 8154, 8152, 8150, 8148, 8147, 8145, 8143, 8142,
      8140, 8138, 8136, 8135, 8133, 8131, 8130, 8128, 8126, 8124, 8123, 8121, 8119, 8118, 8116, 8114, 8112, 8111, 8109, 8107,
      8106, 8104, 8102, 8100, 8099, 8097, 8095, 8094, 8092, 8090, 8088, 8087, 8085, 8083, 8082, 8080, 8078, 8076, 8075, 8073,
      8071, 8070, 8068, 8066, 8064, 8063, 8061, 8059, 8058, 8056, 8054, 8052, 8051, 8049, 8047, 8046, 8044, 8042, 8040, 8039,
      8037, 8035, 8034, 8032, 8030, 8028, 8027, 8025, 8023, 8021, 8020, 8018, 8016, 8015, 8013, 8011, 8009, 8008, 8006, 8004,
      8003, 8001, 7999, 7997, 7996, 7994, 7992, 7991, 7989, 7987, 7985, 7984, 7982, 7980, 7978, 7977, 7975, 7973, 7972, 7970,
      7968, 7966, 7965, 7963, 7961, 7959, 7958, 7956, 7954, 7953, 7951, 7949, 7947, 7946, 7944, 7942, 7941, 7939, 7937, 7935,
      7934, 7932, 7930, 7928, 7927, 7925, 7923, 7922, 7920, 7918, 7916, 7915, 7913, 7911, 7909, 7908, 7906, 7904, 7903, 7901,
      7899, 7897, 7896, 7894, 7892, 7890, 7889, 7887, 7885, 7883, 7882, 7880, 7878, 7877, 7875, 7873, 7871, 7870, 7868, 7866,
      7864, 7863, 7861, 7859, 7857, 7856, 7854, 7852, 7851, 7849, 7847, 7845, 7844, 7842, 7840, 7838, 7837, 7835, 7833, 7831,
      7830, 7828, 7826, 7825, 7823, 7821, 7819, 7818, 7816, 7814, 7812, 7811, 7809, 7807, 7805, 7804, 7802, 7800, 7798, 7797,
      7795, 7793, 7792, 7790, 7788, 7786, 7785, 7783, 7781, 7779, 7778, 7776, 7774, 7772, 7771, 7769, 7767, 7765, 7764, 7762,
      7760, 7758, 7757, 7755, 7753, 7752, 7750, 7748, 7746, 7745, 7743, 7741, 7739, 7738, 7736, 7734, 7732, 7731, 7729, 7727,
      7725, 7724, 7722, 7720, 7718, 7717, 7715, 7713, 7711, 7710, 7708, 7706, 7704, 7703, 7701, 7699, 7697, 7696, 7694, 7692,
      7690, 7689, 7687, 7685, 7683, 7682, 7680, 7678, 7676, 7675, 7673, 7671, 7669, 7668, 7666, 7664, 7662, 7661, 7659, 7657,
      7655, 7654, 7652, 7650, 7648, 7647, 7645, 7643, 7641, 7640, 7638, 7636, 7634, 7633, 7631, 7629, 7627, 7626, 7624, 7622,
      7620, 7619, 7617, 7615, 7613, 7612, 7610, 7608, 7606, 7605, 7603, 7601, 7599, 7598, 7596, 7594, 7592, 7591, 7589, 7587,
      7585, 7584, 7582, 7580, 7578, 7576, 7575, 7573, 7571, 7569, 7568, 7566, 7564, 7562, 7561, 7559, 7557, 7555, 7554, 7552,
      7550, 7548, 7547, 7545, 7543, 7541, 7540, 7538, 7536, 7534, 7532, 7531, 7529, 7527, 7525, 7524, 7522, 7520, 7518, 7517,
      7515, 7513, 7511, 7510, 7508, 7506, 7504, 7502, 7501, 7499, 7497, 7495, 7494, 7492, 7490, 7488, 7487, 7485, 7483, 7481,
      7479, 7478, 7476, 7474, 7472, 7471, 7469, 7467, 7465, 7464, 7462, 7460, 7458, 7456, 7455, 7453, 7451, 7449, 7448, 7446,
      7444, 7442, 7441, 7439, 7437, 7435, 7433, 7432, 7430, 7428, 7426, 7425, 7423, 7421, 7419, 7417, 7416, 7414, 7412, 7410,
      7409, 7407, 7405, 7403, 7401, 7400, 7398, 7396, 7394, 7393, 7391, 7389, 7387, 7385, 7384, 7382, 7380, 7378, 7377, 7375,
      7373, 7371, 7369, 7368, 7366, 7364, 7362, 7361, 7359, 7357, 7355, 7353, 7352, 7350, 7348, 7346, 7345, 7343, 7341, 7339,
      7337, 7336, 7334, 7332, 7330, 7328, 7327, 7325, 7323, 7321, 7320, 7318, 7316, 7314, 7312, 7311, 7309, 7307, 7305, 7303,
      7302, 7300, 7298, 7296, 7295, 7293, 7291, 7289, 7287, 7286, 7284, 7282, 7280, 7278, 7277, 7275, 7273, 7271, 7269, 7268,
      7266, 7264, 7262, 7261, 7259, 7257, 7255, 7253, 7252, 7250, 7248, 7246, 7244, 7243, 7241, 7239, 7237, 7235, 7234, 7232,
      7230, 7228, 7226, 7225, 7223, 7221, 7219, 7217, 7216, 7214, 7212, 7210, 7208, 7207, 7205, 7203, 7201, 7199, 7198, 7196,
      7194, 7192, 7190, 7189, 7187, 7185, 7183, 7181, 7180, 7178, 7176, 7174, 7172, 7171, 7169, 7167, 7165, 7163, 7162, 7160,
      7158, 7156, 7154, 7153, 7151, 7149, 7147, 7145, 7144, 7142, 7140, 7138, 7136, 7134, 7133, 7131, 7129, 7127, 7125, 7124,
      7122, 7120, 7118, 7116, 7115, 7113, 7111, 7109, 7107, 7106, 7104, 7102, 7100, 7098, 7096, 7095, 7093, 7091, 7089, 7087,
      7086, 7084, 7082, 7080, 7078, 7077, 7075, 7073, 7071, 7069, 7067, 7066, 7064, 7062, 7060, 7058, 7057, 7055, 7053, 7051,
      7049, 7047, 7046, 7044, 7042, 7040, 7038, 7037, 7035, 7033, 7031, 7029, 7027, 7026, 7024, 7022, 7020, 7018, 7016, 7015,
      7013, 7011, 7009, 7007, 7006, 7004, 7002, 7000, 6998, 6996, 6995, 6993, 6991, 6989, 6987, 6985, 6984, 6982, 6980, 6978,
      6976, 6975, 6973, 6971, 6969, 6967, 6965, 6964, 6962, 6960, 6958, 6956, 6954, 6953, 6951, 6949, 6947, 6945, 6943, 6942,
      6940, 6938, 6936, 6934, 6932, 6931, 6929, 6927, 6925, 6923, 6921, 6920, 6918, 6916, 6914, 6912, 6910, 6909, 6907, 6905,
      6903, 6901, 6899, 6897, 6896, 6894, 6892, 6890, 6888, 6886, 6885, 6883, 6881, 6879, 6877, 6875, 6874, 6872, 6870, 6868,
      6866, 6864, 6862, 6861, 6859, 6857, 6855, 6853, 6851, 6850, 6848, 6846, 6844, 6842, 6840, 6838, 6837, 6835, 6833, 6831,
      6829, 6827, 6826, 6824, 6822, 6820, 6818, 6816, 6814, 6813, 6811, 6809, 6807, 6805, 6803, 6801, 6800, 6798, 6796, 6794,
      6792, 6790, 6789, 6787, 6785, 6783, 6781, 6779, 6777, 6776, 6774, 6772, 6770, 6768, 6766, 6764, 6763, 6761, 6759, 6757,
      6755, 6753, 6751, 6750, 6748, 6746, 6744, 6742, 6740, 6738, 6736, 6735, 6733, 6731, 6729, 6727, 6725, 6723, 6722, 6720,
      6718, 6716, 6714, 6712, 6710, 6709, 6707, 6705, 6703, 6701, 6699, 6697, 6695, 6694, 6692, 6690, 6688, 6686, 6684, 6682,
      6680, 6679, 6677, 6675, 6673, 6671, 6669, 6667, 6665, 6664, 6662, 6660, 6658, 6656, 6654, 6652, 6650, 6649, 6647, 6645,
      6643, 6641, 6639, 6637, 6635, 6634, 6632, 6630, 6628, 6626, 6624, 6622, 6620, 6619, 6617, 6615, 6613, 6611, 6609, 6607,
      6605, 6604, 6602, 6600, 6598, 6596, 6594, 6592, 6590, 6588, 6587, 6585, 6583, 6581, 6579, 6577, 6575, 6573, 6571, 6570,
      6568, 6566, 6564, 6562, 6560, 6558, 6556, 6554, 6553, 6551, 6549, 6547, 6545, 6543, 6541, 6539, 6537, 6536, 6534, 6532,
      6530, 6528, 6526, 6524, 6522, 6520, 6518, 6517, 6515, 6513, 6511, 6509, 6507, 6505, 6503, 6501, 6499, 6498, 6496, 6494,
      6492, 6490, 6488, 6486, 6484, 6482, 6480, 6479, 6477, 6475, 6473, 6471, 6469, 6467, 6465, 6463, 6461, 6459, 6458, 6456,
      6454, 6452, 6450, 6448, 6446, 6444, 6442, 6440, 6438, 6437, 6435, 6433, 6431, 6429, 6427, 6425, 6423, 6421, 6419, 6417,
      6416, 6414, 6412, 6410, 6408, 6406, 6404, 6402, 6400, 6398, 6396, 6394, 6393, 6391, 6389, 6387, 6385, 6383, 6381, 6379,
      6377, 6375, 6373, 6371, 6369, 6368, 6366, 6364, 6362, 6360, 6358, 6356, 6354, 6352, 6350, 6348, 6346, 6344, 6343, 6341,
      6339, 6337, 6335, 6333, 6331, 6329, 6327, 6325, 6323, 6321, 6319, 6317, 6315, 6314, 6312, 6310, 6308, 6306, 6304, 6302,
      6300, 6298, 6296, 6294, 6292, 6290, 6288, 6286, 6285, 6283, 6281, 6279, 6277, 6275, 6273, 6271, 6269, 6267, 6265, 6263,
      6261, 6259, 6257, 6255, 6253, 6252, 6250, 6248, 6246, 6244, 6242, 6240, 6238, 6236, 6234, 6232, 6230, 6228, 6226, 6224,
      6222, 6220, 6218, 6216, 6214, 6213, 6211, 6209, 6207, 6205, 6203, 6201, 6199, 6197, 6195, 6193, 6191, 6189, 6187, 6185,
      6183, 6181, 6179, 6177, 6175, 6173, 6171, 6169, 6168, 6166, 6164, 6162, 6160, 6158, 6156, 6154, 6152, 6150, 6148, 6146,
      6144, 6142, 6140, 6138, 6136, 6134, 6132, 6130, 6128, 6126, 6124, 6122, 6120, 6118, 6116, 6114, 6112, 6111, 6109, 6107,
      6105, 6103, 6101, 6099, 6097, 6095, 6093, 6091, 6089, 6087, 6085, 6083, 6081, 6079, 6077, 6075, 6073, 6071, 6069, 6067,
      6065, 6063, 6061, 6059, 6057, 6055, 6053, 6051, 6049, 6047, 6045, 6043, 6041, 6039, 6037, 6035, 6033, 6031, 6029, 6027,
      6025, 6023, 6021, 6019, 6017, 6015, 6013, 6011, 6009, 6007, 6005, 6003, 6001, 5999, 5997, 5995, 5993, 5991, 5989, 5987,
      5985, 5983, 5981, 5979, 5977, 5975, 5973, 5971, 5969, 5967, 5965, 5963, 5961, 5959, 5957, 5955, 5953, 5951, 5949, 5947,
      5945, 5943, 5941, 5939, 5937, 5935, 5933, 5931, 5929, 5927, 5925, 5923, 5921, 5919, 5917, 5915, 5913, 5911, 5909, 5907,
      5905, 5903, 5901, 5899, 5897, 5895, 5893, 5891, 5889, 5887, 5885, 5883, 5881, 5879, 5877, 5875, 5873, 5871, 5869, 5867,
      5865, 5863, 5861, 5859, 5857, 5855, 5853, 5851, 5849, 5846, 5844, 5842, 5840, 5838, 5836, 5834, 5832, 5830, 5828, 5826,
      5824, 5822, 5820, 5818, 5816, 5814, 5812, 5810, 5808, 5806, 5804, 5802, 5800, 5798, 5796, 5794, 5792, 5789, 5787, 5785,
      5783, 5781, 5779, 5777, 5775, 5773, 5771, 5769, 5767, 5765, 5763, 5761, 5759, 5757, 5755, 5753, 5751, 5749, 5746, 5744,
      5742, 5740, 5738, 5736, 5734, 5732, 5730, 5728, 5726, 5724, 5722, 5720, 5718, 5716, 5714, 5712, 5709, 5707, 5705, 5703,
      5701, 5699, 5697, 5695, 5693, 5691, 5689, 5687, 5685, 5683, 5681, 5678, 5676, 5674, 5672, 5670, 5668, 5666, 5664, 5662,
      5660, 5658, 5656, 5654, 5652, 5649, 5647, 5645, 5643, 5641, 5639, 5637, 5635, 5633, 5631, 5629, 5627, 5625, 5622, 5620,
      5618, 5616, 5614, 5612, 5610, 5608, 5606, 5604, 5602, 5599, 5597, 5595, 5593, 5591, 5589, 5587, 5585, 5583, 5581, 5579,
      5576, 5574, 5572, 5570, 5568, 5566, 5564, 5562, 5560, 5558, 5555, 5553, 5551, 5549, 5547, 5545, 5543, 5541, 5539, 5537,
      5534, 5532, 5530, 5528, 5526, 5524, 5522, 5520, 5518, 5515, 5513, 5511, 5509, 5507, 5505, 5503, 5501, 5499, 5496, 5494,
      5492, 5490, 5488, 5486, 5484, 5482, 5480, 5477, 5475, 5473, 5471, 5469, 5467, 5465, 5463, 5460, 5458, 5456, 5454, 5452,
      5450, 5448, 5446, 5443, 5441, 5439, 5437, 5435, 5433, 5431, 5428, 5426, 5424, 5422, 5420, 5418, 5416, 5413, 5411, 5409,
      5407, 5405, 5403, 5401, 5399, 5396, 5394, 5392, 5390, 5388, 5386, 5383, 5381, 5379, 5377, 5375, 5373, 5371, 5368, 5366,
      5364, 5362, 5360, 5358, 5356, 5353, 5351, 5349, 5347, 5345, 5343, 5340, 5338, 5336, 5334, 5332, 5330, 5327, 5325, 5323,
      5321, 5319, 5317, 5314, 5312, 5310, 5308, 5306, 5304, 5301, 5299, 5297, 5295, 5293, 5291, 5288, 5286, 5284, 5282, 5280,
      5278, 5275, 5273, 5271, 5269, 5267, 5264, 5262, 5260, 5258, 5256, 5254, 5251, 5249, 5247, 5245, 5243, 5240, 5238, 5236,
      5234, 5232, 5229, 5227, 5225, 5223, 5221, 5218, 5216, 5214, 5212, 5210, 5208, 5205, 5203, 5201, 5199, 5197, 5194, 5192,
      5190, 5188, 5185, 5183, 5181, 5179, 5177, 5174, 5172, 5170, 5168, 5166, 5163, 5161, 5159, 5157, 5155, 5152, 5150, 5148,
      5146, 5143, 5141, 5139, 5137, 5135, 5132, 5130, 5128, 5126, 5123, 5121, 5119, 5117, 5115, 5112, 5110, 5108, 5106, 5103,
      5101, 5099, 5097, 5094, 5092, 5090, 5088, 5086, 5083, 5081, 5079, 5077, 5074, 5072, 5070, 5068, 5065, 5063, 5061, 5059,
      5056, 5054, 5052, 5050, 5047, 5045, 5043, 5041, 5038, 5036, 5034, 5032, 5029, 5027, 5025, 5023, 5020, 5018, 5016, 5014,
      5011, 5009, 5007, 5004, 5002, 5000, 4998, 4995, 4993, 4991, 4989, 4986, 4984, 4982, 4980, 4977, 4975, 4973, 4970, 4968,
      4966, 4964, 4961, 4959, 4957, 4954, 4952, 4950, 4948, 4945, 4943, 4941, 4938, 4936, 4934, 4932, 4929, 4927, 4925, 4922,
      4920, 4918, 4916, 4913, 4911, 4909, 4906, 4904, 4902, 4899, 4897, 4895, 4893, 4890, 4888, 4886, 4883, 4881, 4879, 4876,
      4874, 4872, 4869, 4867, 4865, 4863, 4860, 4858, 4856, 4853, 4851, 4849, 4846, 4844, 4842, 4839, 4837, 4835, 4832, 4830,
      4828, 4825, 4823, 4821, 4818, 4816, 4814, 4811, 4809, 4807, 4804, 4802, 4800, 4797, 4795, 4793, 4790, 4788, 4786, 4783,
      4781, 4779, 4776, 4774, 4772, 4769, 4767, 4765, 4762, 4760, 4757, 4755, 4753, 4750, 4748, 4746, 4743, 4741, 4739, 4736,
      4734, 4732, 4729, 4727, 4724, 4722, 4720, 4717, 4715, 4713, 4710, 4708, 4705, 4703, 4701, 4698, 4696, 4694, 4691, 4689,
      4686, 4684, 4682, 4679, 4677, 4675, 4672, 4670, 4667, 4665, 4663, 4660, 4658, 4655, 4653, 4651, 4648, 4646, 4643, 4641,
      4639, 4636, 4634, 4631, 4629, 4627, 4624, 4622, 4619, 4617, 4615, 4612, 4610, 4607, 4605, 4603, 4600, 4598, 4595, 4593,
      4590, 4588, 4586, 4583, 4581, 4578, 4576, 4573, 4571, 4569, 4566, 4564, 4561, 4559, 4556, 4554, 4552, 4549, 4547, 4544,
      4542, 4539, 4537, 4534, 4532, 4530, 4527, 4525, 4522, 4520, 4517, 4515, 4512, 4510, 4508, 4505, 4503, 4500, 4498, 4495,
      4493, 4490, 4488, 4485, 4483, 4480, 4478, 4476, 4473, 4471, 4468, 4466, 4463, 4461, 4458, 4456, 4453, 4451, 4448, 4446,
      4443, 4441, 4438, 4436, 4433, 4431, 4428, 4426, 4423, 4421, 4418, 4416, 4413, 4411, 4408, 4406, 4403, 4401, 4398, 4396,
      4393, 4391, 4388, 4386, 4383, 4381, 4378, 4376, 4373, 4371, 4368, 4366, 4363, 4361, 4358, 4356, 4353, 4351, 4348, 4346,
      4343, 4341, 4338, 4335, 4333, 4330, 4328, 4325, 4323, 4320, 4318, 4315, 4313, 4310, 4308, 4305, 4302, 4300, 4297, 4295,
      4292, 4290, 4287, 4285, 4282, 4279, 4277, 4274, 4272, 4269, 4267, 4264, 4261, 4259, 4256, 4254, 4251, 4249, 4246, 4243,
      4241, 4238, 4236, 4233, 4231, 4228, 4225, 4223, 4220, 4218, 4215, 4212, 4210, 4207, 4205, 4202, 4199, 4197, 4194, 4192,
      4189, 4186, 4184, 4181, 4179, 4176, 4173, 4171, 4168, 4165, 4163, 4160, 4158, 4155, 4152, 4150, 4147, 4145, 4142, 4139,
      4137, 4134, 4131, 4129, 4126, 4123, 4121, 4118, 4116, 4113, 4110, 4108, 4105, 4102, 4100, 4097, 4094, 4092, 4089, 4086,
      4084, 4081, 4078, 4076, 4073, 4070, 4068, 4065, 4062, 4060, 4057, 4054, 4052, 4049, 4046, 4044, 4041, 4038, 4036, 4033,
      4030, 4027, 4025, 4022, 4019, 4017, 4014, 4011, 4009, 4006, 4003, 4000, 3998, 3995, 3992, 3990, 3987, 3984, 3981, 3979,
      3976, 3973, 3971, 3968, 3965, 3962, 3960, 3957, 3954, 3951, 3949, 3946, 3943, 3940, 3938, 3935, 3932, 3930, 3927, 3924,
      3921, 3918, 3916, 3913, 3910, 3907, 3905, 3902, 3899, 3896, 3894, 3891, 3888, 3885, 3883, 3880, 3877, 3874, 3871, 3869,
      3866, 3863, 3860, 3857, 3855, 3852, 3849, 3846, 3843, 3841, 3838, 3835, 3832, 3829, 3827, 3824, 3821, 3818, 3815, 3813,
      3810, 3807, 3804, 3801, 3798, 3796, 3793, 3790, 3787, 3784, 3781, 3779, 3776, 3773, 3770, 3767, 3764, 3761, 3759, 3756,
      3753, 3750, 3747, 3744, 3741, 3739, 3736, 3733, 3730, 3727, 3724, 3721, 3718, 3716, 3713, 3710, 3707, 3704, 3701, 3698,
      3695, 3692, 3690, 3687, 3684, 3681, 3678, 3675, 3672, 3669, 3666, 3663, 3660, 3658, 3655, 3652, 3649, 3646, 3643, 3640,
      3637, 3634, 3631, 3628, 3625, 3622, 3619, 3616, 3613, 3611, 3608, 3605, 3602, 3599, 3596, 3593, 3590, 3587, 3584, 3581,
      3578, 3575, 3572, 3569, 3566, 3563, 3560, 3557, 3554, 3551, 3548, 3545, 3542, 3539, 3536, 3533, 3530, 3527, 3524, 3521,
      3518, 3515, 3512, 3509, 3506, 3503, 3500, 3497, 3494, 3491, 3487, 3484, 3481, 3478, 3475, 3472, 3469, 3466, 3463, 3460,
      3457, 3454, 3451, 3448, 3445, 3441, 3438, 3435, 3432, 3429, 3426, 3423, 3420, 3417, 3414, 3411, 3407, 3404, 3401, 3398,
      3395, 3392, 3389, 3386, 3382, 3379, 3376, 3373, 3370, 3367, 3364, 3360, 3357, 3354, 3351, 3348, 3345, 3342, 3338, 3335,
      3332, 3329, 3326, 3323, 3319, 3316, 3313, 3310, 3307, 3303, 3300, 3297, 3294, 3291, 3287, 3284, 3281, 3278, 3275, 3271,
      3268, 3265, 3262, 3258, 3255, 3252, 3249, 3245, 3242, 3239, 3236, 3232, 3229, 3226, 3223, 3219, 3216, 3213, 3209, 3206,
      3203, 3200, 3196, 3193, 3190, 3186, 3183, 3180, 3177, 3173, 3170, 3167, 3163, 3160, 3157, 3153, 3150, 3147, 3143, 3140,
      3137, 3133, 3130, 3127, 3123, 3120, 3116, 3113, 3110, 3106, 3103, 3100, 3096, 3093, 3089, 3086, 3083, 3079, 3076, 3072,
      3069, 3066, 3062, 3059, 3055, 3052, 3048, 3045, 3041, 3038, 3035, 3031, 3028, 3024, 3021, 3017, 3014, 3010, 3007, 3003,
      3000, 2996, 2993, 2989, 2986, 2982, 2979, 2975, 2972, 2968, 2965, 2961, 2958, 2954, 2951, 2947, 2944, 2940, 2937, 2933,
      2929, 2926, 2922, 2919, 2915, 2912, 2908, 2904, 2901, 2897, 2894, 2890, 2886, 2883, 2879, 2876, 2872, 2868, 2865, 2861,
      2857, 2854, 2850, 2846, 2843, 2839, 2835, 2832, 2828, 2824, 2821, 2817, 2813, 2810, 2806, 2802, 2798, 2795, 2791, 2787,
      2784, 2780, 2776, 2772, 2769, 2765, 2761, 2757, 2754, 2750, 2746, 2742, 2738, 2735, 2731, 2727, 2723, 2719, 2716, 2712,
      2708, 2704, 2700, 2696, 2693, 2689, 2685, 2681, 2677, 2673, 2669, 2665, 2662, 2658, 2654, 2650, 2646, 2642, 2638, 2634,
      2630, 2626, 2622, 2618, 2614, 2611, 2607, 2603, 2599, 2595, 2591, 2587, 2583, 2579, 2575, 2571, 2567, 2563, 2559, 2554,
      2550, 2546, 2542, 2538, 2534, 2530, 2526, 2522, 2518, 2514, 2510, 2505, 2501, 2497, 2493, 2489, 2485, 2481, 2477, 2472,
      2468, 2464, 2460, 2456, 2451, 2447, 2443, 2439, 2435, 2430, 2426, 2422, 2418, 2413, 2409, 2405, 2400, 2396, 2392, 2388,
      2383, 2379, 2375, 2370, 2366, 2362, 2357, 2353, 2348, 2344, 2340, 2335, 2331, 2326, 2322, 2318, 2313, 2309, 2304, 2300,
      2295, 2291, 2286, 2282, 2277, 2273, 2268, 2264, 2259, 2255, 2250, 2246, 2241, 2237, 2232, 2227, 2223, 2218, 2213, 2209,
      2204, 2200, 2195, 2190, 2186, 2181, 2176, 2171, 2167, 2162, 2157, 2152, 2148, 2143, 2138, 2133, 2129, 2124, 2119, 2114,
      2109, 2104, 2100, 2095, 2090, 2085, 2080, 2075, 2070, 2065, 2060, 2055, 2050, 2045, 2040, 2035, 2030, 2025, 2020, 2015,
      2010, 2005, 2000, 1995, 1990, 1985, 1979, 1974, 1969, 1964, 1959, 1954, 1948, 1943, 1938, 1933, 1927, 1922, 1917, 1911,
      1906, 1901, 1895, 1890, 1885, 1879, 1874, 1868, 1863, 1857, 1852, 1846, 1841, 1835, 1830, 1824, 1819, 1813, 1807, 1802,
      1796, 1790, 1785, 1779, 1773, 1768, 1762, 1756, 1750, 1744, 1739, 1733, 1727, 1721, 1715, 1709, 1703, 1697, 1691, 1685,
      1679, 1673, 1667, 1661, 1655, 1649, 1643, 1636, 1630, 1624, 1618, 1611, 1605, 1599, 1592, 1586, 1580, 1573, 1567, 1560,
      1554, 1547, 1541, 1534, 1528, 1521, 1514, 1508, 1501, 1494, 1487, 1481, 1474, 1467, 1460, 1453, 1446, 1439, 1432, 1425,
      1418, 1411, 1403, 1396, 1389, 1382, 1374, 1367, 1360, 1352, 1345, 1337, 1330, 1322, 1314, 1307, 1299, 1291, 1283, 1275,
      1267, 1259, 1251, 1243, 1235, 1227, 1219, 1211, 1202, 1194, 1185, 1177, 1168, 1160, 1151, 1142, 1133, 1124, 1115, 1106,
      1097, 1088, 1079, 1069, 1060, 1050, 1041, 1031, 1021, 1011, 1001, 991, 981, 971, 960, 950, 939, 928, 917, 906,
      895, 884, 873, 861, 849, 837, 825, 813, 801, 788, 775, 762, 749, 735, 722, 708, 693, 679, 664, 648,
      633, 617, 600, 583, 566, 548, 529, 510, 490, 469, 447, 424, 400, 374, 346, 316, 283, 245, 200, 141>>

\* Math.cos(2 * Math.PI * u2) in units of 1e-4, for u2 = k/10000 (entry k + 1).
CosTable ==
    <<10000, 10000, 10000, 10000, 10000, 10000, 10000, 10000, 10000, 10000, 10000, 10000, 10000, 10000, 10000, 10000, 9999, 9999, 9999, 9999,
      9999, 9999, 9999, 9999, 9999, 9999, 9999, 9999, 9998, 9998, 9998, 9998, 9998, 9998, 9998, 9998, 9997, 9997, 9997, 9997,
      9997, 9997, 9997, 9996, 9996, 9996, 9996, 9996, 9995, 9995, 9995, 9995, 9995, 9994, 9994, 9994, 9994, 9994, 9993, 9993,
      9993, 9993, 9992, 9992, 9992, 9992, 9991, 9991, 9991, 9991, 9990, 9990, 9990, 9989, 9989, 9989, 9989, 9988, 9988, 9988,
      9987, 9987, 9987, 9986, 9986, 9986, 9985, 9985, 9985, 9984, 9984, 9984, 9983, 9983, 9983, 9982, 9982, 9981, 9981, 9981,
      9980, 9980, 9979, 9979, 9979, 9978, 9978, 9977, 9977, 9977, 9976, 9976, 9975, 9975, 9974, 9974, 9973, 9973, 9973, 9972,
      9972, 9971, 9971, 9970, 9970, 9969, 9969, 9968, 9968, 9967, 9967, 9966, 9966, 9965, 9965, 9964, 9964, 9963, 9962, 9962,
      9961, 9961, 9960, 9960, 9959, 9959, 9958, 9957, 9957, 9956, 9956, 9955, 9954, 9954, 9953, 9953, 9952, 9951, 9951, 9950,
      9950, 9949, 9948, 9948, 9947, 9946, 9946, 9945, 9944, 9944, 9943, 9942, 9942, 9941, 9940, 9940, 9939, 9938, 9938, 9937,
      9936, 9935, 9935, 9934, 9933, 9933, 9932, 9931, 9930, 9930, 9929, 9928, 9927, 9927, 9926, 9925, 9924, 9923, 9923, 9922,
      9921, 9920, 9920, 9919, 9918, 9917, 9916, 9916, 9915, 9914, 9913, 9912, 9911, 9911, 9910, 9909, 9908, 9907, 9906, 9905,
      9905, 9904, 9903, 9902, 9901, 9900, 9899, 9898, 9898, 9897, 9896, 9895, 9894, 9893, 9892, 9891, 9890, 9889, 9888, 9887,
      9887, 9886, 9885, 9884, 9883, 9882, 9881, 9880, 9879, 9878, 9877, 9876, 9875, 9874, 9873, 9872, 9871, 9870, 9869, 9868,
      9867, 9866, 9865, 9864, 9863, 9862, 9861, 9860, 9859, 9858, 9856, 9855, 9854, 9853, 9852, 9851, 9850, 9849, 9848, 9847,
      9846, 9845, 9843, 9842, 9841, 9840, 9839, 9838, 9837, 9836, 9834, 9833, 9832, 9831, 9830, 9829, 9828, 9826, 9825, 9824,
      9823, 9822, 9821, 9819, 9818, 9817, 9816, 9815, 9813, 9812, 9811, 9810, 9808, 9807, 9806, 9805, 9804, 9802, 9801, 9800,
      9799, 9797, 9796, 9795, 9794, 9792, 9791, 9790, 9788, 9787, 9786, 9785, 9783, 9782, 9781, 9779, 9778, 9777, 9775, 9774,
      9773, 9771, 9770, 9769, 9767, 9766, 9765, 9763, 9762, 9761, 9759, 9758, 9756, 9755, 9754, 9752, 9751, 9749, 9748, 9747,
      9745, 9744, 9742, 9741, 9740, 9738, 9737, 9735, 9734, 9732, 9731, 9730, 9728, 9727, 9725, 9724, 9722, 9721, 9719, 9718,
      9716, 9715, 9713, 9712, 9710, 9709, 9707, 9706, 9704, 9703, 9701, 9700, 9698, 9697, 9695, 9694, 9692, 9691, 9689, 9687,
      9686, 9684, 9683, 9681, 9680, 9678, 9676, 9675, 9673, 9672, 9670, 9668, 9667, 9665, 9664, 9662, 9660, 9659, 9657, 9655,
      9654, 9652, 9651, 9649, 9647, 9646, 9644, 9642, 9641, 9639, 9637, 9636, 9634, 9632, 9630, 9629, 9627, 9625, 9624, 9622,
      9620, 9619, 9617, 9615, 9613, 9612, 9610, 9608, 9606, 9605, 9603, 9601, 9599, 9598, 9596, 9594, 9592, 9591, 9589, 9587,
      9585, 9583, 9582, 9580, 9578, 9576, 9574, 9573, 9571, 9569, 9567, 9565, 9563, 9562, 9560, 9558, 9556, 9554, 9552, 9551,
      9549, 9547, 9545, 9543, 9541, 9539, 9537, 9535, 9534, 9532, 9530, 9528, 9526, 9524, 9522, 9520, 9518, 9516, 9514, 9513,
      9511, 9509, 9507, 9505, 9503, 9501, 9499, 9497, 9495, 9493, 9491, 9489, 9487, 9485, 9483, 9481, 9479, 9477, 9475, 9473,
      9471, 9469, 9467, 9465, 9463, 9461, 9459, 9457, 9455, 9453, 9451, 9449, 9447, 9444, 9442, 9440, 9438, 9436, 9434, 9432,
      9430, 9428, 9426, 9424, 9422, 9419, 9417, 9415, 9413, 9411, 9409, 9407, 9405, 9402, 9400, 9398, 9396, 9394, 9392, 9390,
      9387, 9385, 9383, 9381, 9379, 9376, 9374, 9372, 9370, 9368, 9365, 9363, 9361, 9359, 9357, 9354, 9352, 9350, 9348, 9346,
      9343, 9341, 9339, 9337, 9334, 9332, 9330, 9328, 9325, 9323, 9321, 9318, 9316, 9314, 9312, 9309, 9307, 9305, 9302, 9300,
      9298, 9295, 9293, 9291, 9288, 9286, 9284, 9281, 9279, 9277, 9274, 9272, 9270, 9267, 9265, 9263, 9260, 9258, 9256, 9253,
      9251, 9248, 9246, 9244, 9241, 9239, 9236, 9234, 9232, 9229, 9227, 9224, 9222, 9219, 9217, 9215, 9212, 9210, 9207, 9205,
      9202, 9200, 9197, 9195, 9192, 9190, 9187, 9185, 9183, 9180, 9178, 9175, 9173, 9170, 9168, 9165, 9163, 9160, 9157, 9155,
      9152, 9150, 9147, 9145, 9142, 9140, 9137, 9135, 9132, 9129, 9127, 9124, 9122, 9119, 9117, 9114, 9111, 9109, 9106, 9104,
      9101, 9098, 9096, 9093, 9091, 9088, 9085, 9083, 9080, 9077, 9075, 9072, 9070, 9067, 9064, 9062, 9059, 9056, 9054, 9051,
      9048, 9046, 9043, 9040, 9038, 9035, 9032, 9029, 9027, 9024, 9021, 9019, 9016, 9013, 9010, 9008, 9005, 9002, 9000, 8997,
      8994, 8991, 8989, 8986, 8983, 8980, 8978, 8975, 8972, 8969, 8966, 8964, 8961, 8958, 8955, 8952, 8950, 8947, 8944, 8941,
      8938, 8936, 8933, 8930, 8927, 8924, 8921, 8919, 8916, 8913, 8910, 8907, 8904, 8901, 8899, 8896, 8893, 8890, 8887, 8884,
      8881, 8878, 8876, 8873, 8870, 8867, 8864, 8861, 8858, 8855, 8852, 8849, 8846, 8844, 8841, 8838, 8835, 8832, 8829, 8826,
      8823, 8820, 8817, 8814, 8811, 8808, 8805, 8802, 8799, 8796, 8793, 8790, 8787, 8784, 8781, 8778, 8775, 8772, 8769, 8766,
      8763, 8760, 8757, 8754, 8751, 8748, 8745, 8742, 8739, 8736, 8733, 8730, 8726, 8723, 8720, 8717, 8714, 8711, 8708, 8705,
      8702, 8699, 8696, 8693, 8689, 8686, 8683, 8680, 8677, 8674, 8671, 8668, 8664, 8661, 8658, 8655, 8652, 8649, 8646, 8642,
      8639, 8636, 8633, 8630, 8627, 8623, 8620, 8617, 8614, 8611, 8607, 8604, 8601, 8598, 8595, 8591, 8588, 8585, 8582, 8578,
      8575, 8572, 8569, 8566, 8562, 8559, 8556, 8553, 8549, 8546, 8543, 8540, 8536, 8533, 8530, 8526, 8523, 8520, 8517, 8513,
      8510, 8507, 8503, 8500, 8497, 8493, 8490, 8487, 8483, 8480, 8477, 8473, 8470, 8467, 8463, 8460, 8457, 8453, 8450, 8447,
      8443, 8440, 8437, 8433, 8430, 8426, 8423, 8420, 8416, 8413, 8409, 8406, 8403, 8399, 8396, 8392, 8389, 8386, 8382, 8379,
      8375, 8372, 8368, 8365, 8362, 8358, 8355, 8351, 8348, 8344, 8341, 8337, 8334, 8330, 8327, 8323, 8320, 8316, 8313, 8309,
      8306, 8302, 8299, 8295, 8292, 8288, 8285, 8281, 8278, 8274, 8271, 8267, 8264, 8260, 8257, 8253, 8250, 8246, 8242, 8239,
      8235, 8232, 8228, 8225, 8221, 8217, 8214, 8210, 8207, 8203, 8200, 8196, 8192, 8189, 8185, 8181, 8178, 8174, 8171, 8167,
      8163, 8160, 8156, 8152, 8149, 8145, 8142, 8138, 8134, 8131, 8127, 8123, 8120, 8116, 8112, 8109, 8105, 8101, 8098, 8094,
      8090, 8086, 8083, 8079, 8075, 8072, 8068, 8064, 8061, 8057, 8053, 8049, 8046, 8042, 8038, 8034, 8031, 8027, 8023, 8019,
      8016, 8012, 8008, 8004, 8001, 7997, 7993, 7989, 7986, 7982, 7978, 7974, 7970, 7967, 7963, 7959, 7955, 7951, 7948, 7944,
      7940, 7936, 7932, 7928, 7925, 7921, 7917, 7913, 7909, 7905, 7902, 7898, 7894, 7890, 7886, 7882, 7878, 7875, 7871, 7867,
      7863, 7859, 7855, 7851, 7847, 7843, 7840, 7836, 7832, 7828, 7824, 7820, 7816, 7812, 7808, 7804, 7800, 7796, 7793, 7789,
      7785, 7781, 7777, 7773, 7769, 7765, 7761, 7757, 7753, 7749, 7745, 7741, 7737, 7733, 7729, 7725, 7721, 7717, 7713, 7709,
      7705, 7701, 7697, 7693, 7689, 7685, 7681, 7677, 7673, 7669, 7665, 7661, 7657, 7653, 7649, 7645, 7641, 7637, 7633, 7628,
      7624, 7620, 7616, 7612, 7608, 7604, 7600, 7596, 7592, 7588, 7584, 7580, 7575, 7571, 7567, 7563, 7559, 7555, 7551, 7547,
      7543, 7538, 7534, 7530, 7526, 7522, 7518, 7514, 7509, 7505, 7501, 7497, 7493, 7489, 7484, 7480, 7476, 7472, 7468, 7464,
      7459, 7455, 7451, 7447, 7443, 7438, 7434, 7430, 7426, 7422, 7417, 7413, 7409, 7405, 7401, 7396, 7392, 7388, 7384, 7379,
      7375, 7371, 7367, 7362, 7358, 7354, 7350, 7345, 7341, 7337, 7333, 7328, 7324, 7320, 7315, 7311, 7307, 7303, 7298, 7294,
      7290, 7285, 7281, 7277, 7272, 7268, 7264, 7260, 7255, 7251, 7247, 7242, 7238, 7234, 7229, 7225, 7221, 7216, 7212, 7207,
      7203, 7199, 7194, 7190, 7186, 7181, 7177, 7173, 7168, 7164, 7159, 7155, 7151, 7146, 7142, 7137, 7133, 7129, 7124, 7120,
      7115, 7111, 7107, 7102, 7098, 7093, 7089, 7084, 7080, 7076, 7071, 7067, 7062, 7058, 7053, 7049, 7044, 7040, 7035, 7031,
      7026, 7022, 7018, 7013, 7009, 7004, 7000, 6995, 6991, 6986, 6982, 6977, 6973, 6968, 6964, 6959, 6955, 6950, 6946, 6941,
      6937, 6932, 6927, 6923, 6918, 6914, 6909, 6905, 6900, 6896, 6891, 6887, 6882, 6877, 6873, 6868, 6864, 6859, 6855, 6850,
      6845, 6841, 6836, 6832, 6827, 6823, 6818, 6813, 6809, 6804, 6800, 6795, 6790, 6786, 6781, 6776, 6772, 6767, 6763, 6758,
      6753, 6749, 6744, 6739, 6735, 6730, 6725, 6721, 6716, 6712, 6707, 6702, 6698, 6693, 6688, 6684, 6679, 6674, 6669, 6665,
      6660, 6655, 6651, 6646, 6641, 6637, 6632, 6627, 6623, 6618, 6613, 6608, 6604, 6599, 6594, 6590, 6585, 6580, 6575, 6571,
      6566, 6561, 6556, 6552, 6547, 6542, 6537, 6533, 6528, 6523, 6518, 6514, 6509, 6504, 6499, 6494, 6490, 6485, 6480, 6475,
      6471, 6466, 6461, 6456, 6451, 6447, 6442, 6437, 6432, 6427, 6423, 6418, 6413, 6408, 6403, 6398, 6394, 6389, 6384, 6379,
      6374, 6369, 6365, 6360, 6355, 6350, 6345, 6340, 6335, 6331, 6326, 6321, 6316, 6311, 6306, 6301, 6296, 6292, 6287, 6282,
      6277, 6272, 6267, 6262, 6257, 6252, 6248, 6243, 6238, 6233, 6228, 6223, 6218, 6213, 6208, 6203, 6198, 6193, 6188, 6184,
      6179, 6174, 6169, 6164, 6159, 6154, 6149, 6144, 6139, 6134, 6129, 6124, 6119, 6114, 6109, 6104, 6099, 6094, 6089, 6084,
      6079, 6074, 6069, 6064, 6059, 6054, 6049, 6044, 6039, 6034, 6029, 6024, 6019, 6014, 6009, 6004, 5999, 5994, 5989, 5984,
      5979, 5974, 5969, 5964, 5959, 5954, 5949, 5944, 5939, 5934, 5929, 5924, 5918, 5913, 5908, 5903, 5898, 5893, 5888, 5883,
      5878, 5873, 5868, 5863, 5858, 5852, 5847, 5842, 5837, 5832, 5827, 5822, 5817, 5812, 5806, 5801, 5796, 5791, 5786, 5781,
      5776, 5771, 5765, 5760, 5755, 5750, 5745, 5740, 5735, 5729, 5724, 5719, 5714, 5709, 5704, 5699, 5693, 5688, 5683, 5678,
      5673, 5668, 5662, 5657, 5652, 5647, 5642, 5636, 5631, 5626, 5621, 5616, 5610, 5605, 5600, 5595, 5590, 5584, 5579, 5574,
      5569, 5564, 5558, 5553, 5548, 5543, 5537, 5532, 5527, 5522, 5516, 5511, 5506, 5501, 5495, 5490, 5485, 5480, 5474, 5469,
      5464, 5459, 5453, 5448, 5443, 5438, 5432, 5427, 5422, 5416, 5411, 5406, 5401, 5395, 5390, 5385, 5379, 5374, 5369, 5364,
      5358, 5353, 5348, 5342, 5337, 5332, 5326, 5321, 5316, 5310, 5305, 5300, 5294, 5289, 5284, 5278, 5273, 5268, 5262, 5257,
      5252, 5246, 5241, 5236, 5230, 5225, 5220, 5214, 5209, 5204, 5198, 5193, 5187, 5182, 5177, 5171, 5166, 5161, 5155, 5150,
      5144, 5139, 5134, 5128, 5123, 5117, 5112, 5107, 5101, 5096, 5090, 5085, 5080, 5074, 5069, 5063, 5058, 5053, 5047, 5042,
      5036, 5031, 5025, 5020, 5015, 5009, 5004, 4998, 4993, 4987, 4982, 4976, 4971, 4965, 4960, 4955, 4949, 4944, 4938, 4933,
      4927, 4922, 4916, 4911, 4905, 4900, 4894, 4889, 4883, 4878, 4873, 4867, 4862, 4856, 4851, 4845, 4840, 4834, 4829, 4823,
      4818, 4812, 4807, 4801, 4795, 4790, 4784, 4779, 4773, 4768, 4762, 4757, 4751, 4746, 4740, 4735, 4729, 4724, 4718, 4713,
      4707, 4701, 4696, 4690, 4685, 4679, 4674, 4668, 4663, 4657, 4652, 4646, 4640, 4635, 4629, 4624, 4618, 4613, 4607, 4601,
      4596, 4590, 4585, 4579, 4573, 4568, 4562, 4557, 4551, 4546, 4540, 4534, 4529, 4523, 4517, 4512, 4506, 4501, 4495, 4489,
      4484, 4478, 4473, 4467, 4461, 4456, 4450, 4444, 4439, 4433, 4428, 4422, 4416, 4411, 4405, 4399, 4394, 4388, 4382, 4377,
      4371, 4366, 4360, 4354, 4349, 4343, 4337, 4332, 4326, 4320, 4315, 4309, 4303, 4298, 4292, 4286, 4281, 4275, 4269, 4263,
      4258, 4252, 4246, 4241, 4235, 4229, 4224, 4218, 4212, 4207, 4201, 4195, 4189, 4184, 4178, 4172, 4167, 4161, 4155, 4149,
      4144, 4138, 4132, 4127, 4121, 4115, 4109, 4104, 4098, 4092, 4086, 4081, 4075, 4069, 4064, 4058, 4052, 4046, 4041, 4035,
      4029, 4023, 4018, 4012, 4006, 4000, 3995, 3989, 3983, 3977, 3971, 3966, 3960, 3954, 3948, 3943, 3937, 3931, 3925, 3920,
      3914, 3908, 3902, 3896, 3891, 3885, 3879, 3873, 3867, 3862, 3856, 3850, 3844, 3838, 3833, 3827, 3821, 3815, 3809, 3804,
      3798, 3792, 3786, 3780, 3775, 3769, 3763, 3757, 3751, 3745, 3740, 3734, 3728, 3722, 3716, 3710, 3705, 3699, 3693, 3687,
      3681, 3675, 3670, 3664, 3658, 3652, 3646, 3640, 3634, 3629, 3623, 3617, 3611, 3605, 3599, 3593, 3588, 3582, 3576, 3570,
      3564, 3558, 3552, 3547, 3541, 3535, 3529, 3523, 3517, 3511, 3505, 3499, 3494, 3488, 3482, 3476, 3470, 3464, 3458, 3452,
      3446, 3441, 3435, 3429, 3423, 3417, 3411, 3405, 3399, 3393, 3387, 3381, 3376, 3370, 3364, 3358, 3352, 3346, 3340, 3334,
      3328, 3322, 3316, 3310, 3304, 3299, 3293, 3287, 3281, 3275, 3269, 3263, 3257, 3251, 3245, 3239, 3233, 3227, 3221, 3215,
      3209, 3203, 3198, 3192, 3186, 3180, 3174, 3168, 3162, 3156, 3150, 3144, 3138, 3132, 3126, 3120, 3114, 3108, 3102, 3096,
      3090, 3084, 3078, 3072, 3066, 3060, 3054, 3048, 3042, 3036, 3030, 3024, 3018, 3012, 3006, 3000, 2994, 2988, 2982, 2976,
      2970, 2964, 2958, 2952, 2946, 2940, 2934, 2928, 2922, 2916, 2910, 2904, 2898, 2892, 2886, 2880, 2874, 2868, 2862, 2856,
      2850, 2844, 2838, 2832, 2826, 2820, 2814, 2808, 2802, 2796, 2790, 2784, 2778, 2772, 2766, 2760, 2754, 2748, 2742, 2736,
      2730, 2723, 2717, 2711, 2705, 2699, 2693, 2687, 2681, 2675, 2669, 2663, 2657, 2651, 2645, 2639, 2633, 2627, 2621, 2614,
      2608, 2602, 2596, 2590, 2584, 2578, 2572, 2566, 2560, 2554, 2548, 2542, 2536, 2529, 2523, 2517, 2511, 2505, 2499, 2493,
      2487, 2481, 2475, 2469, 2463, 2456, 2450, 2444, 2438, 2432, 2426, 2420, 2414, 2408, 2402, 2396, 2389, 2383, 2377, 2371,
      2365, 2359, 2353, 2347, 2341, 2334, 2328, 2322, 2316, 2310, 2304, 2298, 2292, 2286, 2279, 2273, 2267, 2261, 2255, 2249,
      2243, 2237, 2230, 2224, 2218, 2212, 2206, 2200, 2194, 2188, 2181, 2175, 2169, 2163, 2157, 2151, 2145, 2138, 2132, 2126,
      2120, 2114, 2108, 2102, 2096, 2089, 2083, 2077, 2071, 2065, 2059, 2052, 2046, 2040, 2034, 2028, 2022, 2016, 2009, 2003,
      1997, 1991, 1985, 1979, 1972, 1966, 1960, 1954, 1948, 1942, 1935, 1929, 1923, 1917, 1911, 1905, 1898, 1892, 1886, 1880,
      1874, 1868, 1861, 1855, 1849, 1843, 1837, 1831, 1824, 1818, 1812, 1806, 1800, 1794, 1787, 1781, 1775, 1769, 1763, 1756,
      1750, 1744, 1738, 1732, 1725, 1719, 1713, 1707, 1701, 1695, 1688, 1682, 1676, 1670, 1664, 1657, 1651, 1645, 1639, 1633,
      1626, 1620, 1614, 1608, 1602, 1595, 1589, 1583, 1577, 1571, 1564, 1558, 1552, 1546, 1540, 1533, 1527, 1521, 1515, 1508,
      1502, 1496, 1490, 1484, 1477, 1471, 1465, 1459, 1453, 1446, 1440, 1434, 1428, 1421, 1415, 1409, 1403, 1397, 1390, 1384,
      1378, 1372, 1365, 1359, 1353, 1347, 1341, 1334, 1328, 1322, 1316, 1309, 1303, 1297, 1291, 1284, 1278, 1272, 1266, 1260,
      1253, 1247, 1241, 1235, 1228, 1222, 1216, 1210, 1203, 1197, 1191, 1185, 1178, 1172, 1166, 1160, 1154, 1147, 1141, 1135,
      1129, 1122, 1116, 1110, 1104, 1097, 1091, 1085, 1079, 1072, 1066, 1060, 1054, 1047, 1041, 1035, 1029, 1022, 1016, 1010,
      1004, 997, 991, 985, 979, 972, 966, 960, 954, 947, 941, 935, 929, 922, 916, 910, 904, 897, 891, 885,
      879, 872, 866, 860, 853, 847, 841, 835, 828, 822, 816, 810, 803, 797, 791, 785, 778, 772, 766, 760,
      753, 747, 741, 734, 728, 722, 716, 709, 703, 697, 691, 684, 678, 672, 666, 659, 653, 647, 640, 634,
      628, 622, 615, 609, 603, 597, 590, 584, 578, 571, 565, 559, 553, 546, 540, 534, 528, 521, 515, 509,
      502, 496, 490, 484, 477, 471, 465, 459, 452, 446, 440, 433, 427, 421, 415, 408, 402, 396, 389, 383,
      377, 371, 364, 358, 352, 346, 339, 333, 327, 320, 314, 308, 302, 295, 289, 283, 276, 270, 264, 258,
      251, 245, 239, 232, 226, 220, 214, 207, 201, 195, 188, 182, 176, 170, 163, 157, 151, 145, 138, 132,
      126, 119, 113, 107, 101, 94, 88, 82, 75, 69, 63, 57, 50, 44, 38, 31, 25, 19, 13, 6,
      0, -6, -13, -19, -25, -31, -38, -44, -50, -57, -63, -69, -75, -82, -88, -94, -101, -107, -113, -119,
      -126, -132, -138, -145, -151, -157, -163, -170, -176, -182, -188, -195, -201, -207, -214, -220, -226, -232, -239, -245,
      -251, -258, -264, -270, -276, -283, -289, -295, -302, -308, -314, -320, -327, -333, -339, -346, -352, -358, -364, -371,
      -377, -383, -389, -396, -402, -408, -415, -421, -427, -433, -440, -446, -452, -459, -465, -471, -477, -484, -490, -496,
      -502, -509, -515, -521, -528, -534, -540, -546, -553, -559, -565, -571, -578, -584, -590, -597, -603, -609, -615, -622,
      -628, -634, -640, -647, -653, -659, -666, -672, -678, -684, -691, -697, -703, -709, -716, -722, -728, -734, -741, -747,
      -753, -760, -766, -772, -778, -785, -791, -797, -803, -810, -816, -822, -828, -835, -841, -847, -853, -860, -866, -872,
      -879, -885, -891, -897, -904, -910, -916, -922, -929, -935, -941, -947, -954, -960, -966, -972, -979, -985, -991, -997,
      -1004, -1010, -1016, -1022, -1029, -1035, -1041, -1047, -1054, -1060, -1066, -1072, -1079, -1085, -1091, -1097, -1104, -1110, -1116, -1122,
      -1129, -1135, -1141, -1147, -1154, -1160, -1166, -1172, -1178, -1185, -1191, -1197, -1203, -1210, -1216, -1222, -1228, -1235, -1241, -1247,
      -1253, -1260, -1266, -1272, -1278, -1284, -1291, -1297, -1303, -1309, -1316, -1322, -1328, -1334, -1341, -1347, -1353, -1359, -1365, -1372,
      -1378, -1384, -1390, -1397, -1403, -1409, -1415, -1421, -1428, -1434, -1440, -1446, -1453, -1459, -1465, -1471, -1477, -1484, -1490, -1496,
      -1502, -1508, -1515, -1521, -1527, -1533, -1540, -1546, -1552, -1558, -1564, -1571, -1577, -1583, -1589, -1595, -1602, -1608, -1614, -1620,
      -1626, -1633, -1639, -1645, -1651, -1657, -1664, -1670, -1676, -1682, -1688, -1695, -1701, -1707, -1713, -1719, -1725, -1732, -1738, -1744,
      -1750, -1756, -1763, -1769, -1775, -1781, -1787, -1794, -1800, -1806, -1812, -1818, -1824, -1831, -1837, -1843, -1849, -1855, -1861, -1868,
      -1874, -1880, -1886, -1892, -1898, -1905, -1911, -1917, -1923, -1929, -1935, -1942, -1948, -1954, -1960, -1966, -1972, -1979, -1985, -1991,
      -1997, -2003, -2009, -2016, -2022, -2028, -2034, -2040, -2046, -2052, -2059, -2065, -2071, -2077, -2083, -2089, -2096, -2102, -2108, -2114,
      -2120, -2126, -2132, -2138, -2145, -2151, -2157, -2163, -2169, -2175, -2181, -2188, -2194, -2200, -2206, -2212, -2218, -2224, -2230, -2237,
      -2243, -2249, -2255, -2261, -2267, -2273, -2279, -2286, -2292, -2298, -2304, -2310, -2316, -2322, -2328, -2334, -2341, -2347, -2353, -2359,
      -2365, -2371, -2377, -2383, -2389, -2396, -2402, -2408, -2414, -2420, -2426, -2432, -2438, -2444, -2450, -2456, -2463, -2469, -2475, -2481,
      -2487, -2493, -2499, -2505, -2511, -2517, -2523, -2529, -2536, -2542, -2548, -2554, -2560, -2566, -2572, -2578, -2584, -2590, -2596, -2602,
      -2608, -2614, -2621, -2627, -2633, -2639, -2645, -2651, -2657, -2663, -2669, -2675, -2681, -2687, -2693, -2699, -2705, -2711, -2717, -2723,
      -2730, -2736, -2742, -2748, -2754, -2760, -2766, -2772, -2778, -2784, -2790, -2796, -2802, -2808, -2814, -2820, -2826, -2832, -2838, -2844,
      -2850, -2856, -2862, -2868, -2874, -2880, -2886, -2892, -2898, -2904, -2910, -2916, -2922, -2928, -2934, -2940, -2946, -2952, -2958, -2964,
      -2970, -2976, -2982, -2988, -2994, -3000, -3006, -3012, -3018, -3024, -3030, -3036, -3042, -3048, -3054, -3060, -3066, -3072, -3078, -3084,
      -3090, -3096, -3102, -3108, -3114, -3120, -3126, -3132, -3138, -3144, -3150, -3156, -3162, -3168, -3174, -3180, -3186, -3192, -3198, -3203,
      -3209, -3215, -3221, -3227, -3233, -3239, -3245, -3251, -3257, -3263, -3269, -3275, -3281, -3287, -3293, -3299, -3304, -3310, -3316, -3322,
      -3328, -3334, -3340, -3346, -3352, -3358, -3364, -3370, -3376, -3381, -3387, -3393, -3399, -3405, -3411, -3417, -3423, -3429, -3435, -3441,
      -3446, -3452, -3458, -3464, -3470, -3476, -3482, -3488, -3494, -3499, -3505, -3511, -3517, -3523, -3529, -3535, -3541, -3547, -3552, -3558,
      -3564, -3570, -3576, -3582, -3588, -3593, -3599, -3605, -3611, -3617, -3623, -3629, -3634, -3640, -3646, -3652, -3658, -3664, -3670, -3675,
      -3681, -3687, -3693, -3699, -3705, -3710, -3716, -3722, -3728, -3734, -3740, -3745, -3751, -3757, -3763, -3769, -3775, -3780, -3786, -3792,
      -3798, -3804, -3809, -3815, -3821, -3827, -3833, -3838, -3844, -3850, -3856, -3862, -3867, -3873, -3879, -3885, -3891, -3896, -3902, -3908,
      -3914, -3920, -3925, -3931, -3937, -3943, -3948, -3954, -3960, -3966, -3971, -3977, -3983, -3989, -3995, -4000, -4006, -4012, -4018, -4023,
      -4029, -4035, -4041, -4046, -4052, -4058, -4064, -4069, -4075, -4081, -4086, -4092, -4098, -4104, -4109, -4115, -4121, -4127, -4132, -4138,
      -4144, -4149, -4155, -4161, -4167, -4172, -4178, -4184, -4189, -4195, -4201, -4207, -4212, -4218, -4224, -4229, -4235, -4241, -4246, -4252,
      -4258, -4263, -4269, -4275, -4281, -4286, -4292, -4298, -4303, -4309, -4315, -4320, -4326, -4332, -4337, -4343, -4349, -4354, -4360, -4366,
      -4371, -4377, -4382, -4388, -4394, -4399, -4405, -4411, -4416, -4422, -4428, -4433, -4439, -4444, -4450, -4456, -4461, -4467, -4473, -4478,
      -4484, -4489, -4495, -4501, -4506, -4512, -4517, -4523, -4529, -4534, -4540, -4546, -4551, -4557, -4562, -4568, -4573, -4579, -4585, -4590,
      -4596, -4601, -4607, -4613, -4618, -4624, -4629, -4635, -4640, -4646, -4652, -4657, -4663, -4668, -4674, -4679, -4685, -4690, -4696, -4701,
      -4707, -4713, -4718, -4724, -4729, -4735, -4740, -4746, -4751, -4757, -4762, -4768, -4773, -4779, -4784, -4790, -4795, -4801, -4807, -4812,
      -4818, -4823, -4829, -4834, -4840, -4845, -4851, -4856, -4862, -4867, -4873, -4878, -4883, -4889, -4894, -4900, -4905, -4911, -4916, -4922,
      -4927, -4933, -4938, -4944, -4949, -4955, -4960, -4965, -4971, -4976, -4982, -4987, -4993, -4998, -5004, -5009, -5015, -5020, -5025, -5031,
      -5036, -5042, -5047, -5053, -5058, -5063, -5069, -5074, -5080, -5085, -5090, -5096, -5101, -5107, -5112, -5117, -5123, -5128, -5134, -5139,
      -5144, -5150, -5155, -5161, -5166, -5171, -5177, -5182, -5187, -5193, -5198, -5204, -5209, -5214, -5220, -5225, -5230, -5236, -5241, -5246,
      -5252, -5257, -5262, -5268, -5273, -5278, -5284, -5289, -5294, -5300, -5305, -5310, -5316, -5321, -5326, -5332, -5337, -5342, -5348, -5353,
      -5358, -5364, -5369, -5374, -5379, -5385, -5390, -5395, -5401, -5406, -5411, -5416, -5422, -5427, -5432, -5438, -5443, -5448, -5453, -5459,
      -5464, -5469, -5474, -5480, -5485, -5490, -5495, -5501, -5506, -5511, -5516, -5522, -5527, -5532, -5537, -5543, -5548, -5553, -5558, -5564,
      -5569, -5574, -5579, -5584, -5590, -5595, -5600, -5605, -5610, -5616, -5621, -5626, -5631, -5636, -5642, -5647, -5652, -5657, -5662, -5668,
      -5673, -5678, -5683, -5688, -5693, -5699, -5704, -5709, -5714, -5719, -5724, -5729, -5735, -5740, -5745, -5750, -5755, -5760, -5765, -5771,
      -5776, -5781, -5786, -5791, -5796, -5801, -5806, -5812, -5817, -5822, -5827, -5832, -5837, -5842, -5847, -5852, -5858, -5863, -5868, -5873,
      -5878, -5883, -5888, -5893, -5898, -5903, -5908, -5913, -5918, -5924, -5929, -5934, -5939, -5944, -5949, -5954, -5959, -5964, -5969, -5974,
      -5979, -5984, -5989, -5994, -5999, -6004, -6009, -6014, -6019, -6024, -6029, -6034, -6039, -6044, -6049, -6054, -6059, -6064, -6069, -6074,
      -6079, -6084, -6089, -6094, -6099, -6104, -6109, -6114, -6119, -6124, -6129, -6134, -6139, -6144, -6149, -6154, -6159, -6164, -6169, -6174,
      -6179, -6184, -6188, -6193, -6198, -6203, -6208, -6213, -6218, -6223, -6228, -6233, -6238, -6243, -6248, -6252, -6257, -6262, -6267, -6272,
      -6277, -6282, -6287, -6292, -6296, -6301, -6306, -6311, -6316, -6321, -6326, -6331, -6335, -6340, -6345, -6350, -6355, -6360, -6365, -6369,
      -6374, -6379, -6384, -6389, -6394, -6398, -6403, -6408, -6413, -6418, -6423, -6427, -6432, -6437, -6442, -6447, -6451, -6456, -6461, -6466,
      -6471, -6475, -6480, -6485, -6490, -6494, -6499, -6504, -6509, -6514, -6518, -6523, -6528, -6533, -6537, -6542, -6547, -6552, -6556, -6561,
      -6566, -6571, -6575, -6580, -6585, -6590, -6594, -6599, -6604, -6608, -6613, -6618, -6623, -6627, -6632, -6637, -6641, -6646, -6651, -6655,
      -6660, -6665, -6669, -6674, -6679, -6684, -6688, -6693, -6698, -6702, -6707, -6712, -6716, -6721, -6725, -6730, -6735, -6739, -6744, -6749,
      -6753, -6758, -6763, -6767, -6772, -6776, -6781, -6786, -6790, -6795, -6800, -6804, -6809, -6813, -6818, -6823, -6827, -6832, -6836, -6841,
      -6845, -6850, -6855, -6859, -6864, -6868, -6873, -6877, -6882, -6887, -6891, -6896, -6900, -6905, -6909, -6914, -6918, -6923, -6927, -6932,
      -6937, -6941, -6946, -6950, -6955, -6959, -6964, -6968, -6973, -6977, -6982, -6986, -6991, -6995, -7000, -7004, -7009, -7013, -7018, -7022,
      -7026, -7031, -7035, -7040, -7044, -7049, -7053, -7058, -7062, -7067, -7071, -7076, -7080, -7084, -7089, -7093, -7098, -7102, -7107, -7111,
      -7115, -7120, -7124, -7129, -7133, -7137, -7142, -7146, -7151, -7155, -7159, -7164, -7168, -7173, -7177, -7181, -7186, -7190, -7194, -7199,
      -7203, -7207, -7212, -7216, -7221, -7225, -7229, -7234, -7238, -7242, -7247, -7251, -7255, -7260, -7264, -7268, -7272, -7277, -7281, -7285,
      -7290, -7294, -7298, -7303, -7307, -7311, -7315, -7320, -7324, -7328, -7333, -7337, -7341, -7345, -7350, -7354, -7358, -7362, -7367, -7371,
      -7375, -7379, -7384, -7388, -7392, -7396, -7401, -7405, -7409, -7413, -7417, -7422, -7426, -7430, -7434, -7438, -7443, -7447, -7451, -7455,
      -7459, -7464, -7468, -7472, -7476, -7480, -7484, -7489, -7493, -7497, -7501, -7505, -7509, -7514, -7518, -7522, -7526, -7530, -7534, -7538,
      -7543, -7547, -7551, -7555, -7559, -7563, -7567, -7571, -7575, -7580, -7584, -7588, -7592, -7596, -7600, -7604, -7608, -7612, -7616, -7620,
      -7624, -7628, -7633, -7637, -7641, -7645, -7649, -7653, -7657, -7661, -7665, -7669, -7673, -7677, -7681, -7685, -7689, -7693, -7697, -7701,
      -7705, -7709, -7713, -7717, -7721, -7725, -7729, -7733, -7737, -7741, -7745, -7749, -7753, -7757, -7761, -7765, -7769, -7773, -7777, -7781,
      -7785, -7789, -7793, -7796, -7800, -7804, -7808, -7812, -7816, -7820, -7824, -7828, -7832, -7836, -7840, -7843, -7847, -7851, -7855, -7859,
      -7863, -7867, -7871, -7875, -7878, -7882, -7886, -7890, -7894, -7898, -7902, -7905, -7909, -7913, -7917, -7921, -7925, -7928, -7932, -7936,
      -7940, -7944, -7948, -7951, -7955, -7959, -7963, -7967, -7970, -7974, -7978, -7982, -7986, -7989, -7993, -7997, -8001, -8004, -8008, -8012,
      -8016, -8019, -8023, -8027, -8031, -8034, -8038, -8042, -8046, -8049, -8053, -8057, -8061, -8064, -8068, -8072, -8075, -8079, -8083, -8086,
      -8090, -8094, -8098, -8101, -8105, -8109, -8112, -8116, -8120, -8123, -8127, -8131, -8134, -8138, -8142, -8145, -8149, -8152, -8156, -8160,
      -8163, -8167, -8171, -8174, -8178, -8181, -8185, -8189, -8192, -8196, -8200, -8203, -8207, -8210, -8214, -8217, -8221, -8225, -8228, -8232,
      -8235, -8239, -8242, -8246, -8250, -8253, -8257, -8260, -8264, -8267, -8271, -8274, -8278, -8281, -8285, -8288, -8292, -8295, -8299, -8302,
      -8306, -8309, -8313, -8316, -8320, -8323, -8327, -8330, -8334, -8337, -8341, -8344, -8348, -8351, -8355, -8358, -8362, -8365, -8368, -8372,
      -8375, -8379, -8382, -8386, -8389, -8392, -8396, -8399, -8403, -8406, -8409, -8413, -8416, -8420, -8423, -8426, -8430, -8433, -8437, -8440,
      -8443, -8447, -8450, -8453, -8457, -8460, -8463, -8467, -8470, -8473, -8477, -8480, -8483, -8487, -8490, -8493, -8497, -8500, -8503, -8507,
      -8510, -8513, -8517, -8520, -8523, -8526, -8530, -8533, -8536, -8540, -8543, -8546, -8549, -8553, -8556, -8559, -8562, -8566, -8569, -8572,
      -8575, -8578, -8582, -8585, -8588, -8591, -8595, -8598, -8601, -8604, -8607, -8611, -8614, -8617, -8620, -8623, -8627, -8630, -8633, -8636,
      -8639, -8642, -8646, -8649, -8652, -8655, -8658, -8661, -8664, -8668, -8671, -8674, -8677, -8680, -8683, -8686, -8689, -8693, -8696, -8699,
      -8702, -8705, -8708, -8711, -8714, -8717, -8720, -8723, -8726, -8730, -8733, -8736, -8739, -8742, -8745, -8748, -8751, -8754, -8757, -8760,
      -8763, -8766, -8769, -8772, -8775, -8778, -8781, -8784, -8787, -8790, -8793, -8796, -8799, -8802, -8805, -8808, -8811, -8814, -8817, -8820,
      -8823, -8826, -8829, -8832, -8835, -8838, -8841, -8844, -8846, -8849, -8852, -8855, -8858, -8861, -8864, -8867, -8870, -8873, -8876, -8878,
      -8881, -8884, -8887, -8890, -8893, -8896, -8899, -8901, -8904, -8907, -8910, -8913, -8916, -8919, -8921, -8924, -8927, -8930, -8933, -8936,
      -8938, -8941, -8944, -8947, -8950, -8952, -8955, -8958, -8961, -8964, -8966, -8969, -8972, -8975, -8978, -8980, -8983, -8986, -8989, -8991,
      -8994, -8997, -9000, -9002, -9005, -9008, -9010, -9013, -9016, -9019, -9021, -9024, -9027, -9029, -9032, -9035, -9038, -9040, -9043, -9046,
      -9048, -9051, -9054, -9056, -9059, -9062, -9064, -9067, -9070, -9072, -9075, -9077, -9080, -9083, -9085, -9088, -9091, -9093, -9096, -9098,
      -9101, -9104, -9106, -9109, -9111, -9114, -9117, -9119, -9122, -9124, -9127, -9129, -9132, -9135, -9137, -9140, -9142, -9145, -9147, -9150,
      -9152, -9155, -9157, -9160, -9163, -9165, -9168, -9170, -9173, -9175, -9178, -9180, -9183, -9185, -9187, -9190, -9192, -9195, -9197, -9200,
      -9202, -9205, -9207, -9210, -9212, -9215, -9217, -9219, -9222, -9224, -9227, -9229, -9232, -9234, -9236, -9239, -9241, -9244, -9246, -9248,
      -9251, -9253, -9256, -9258, -9260, -9263, -9265, -9267, -9270, -9272, -9274, -9277, -9279, -9281, -9284, -9286, -9288, -9291, -9293, -9295,
      -9298, -9300, -9302, -9305, -9307, -9309, -9312, -9314, -9316, -9318, -9321, -9323, -9325, -9328, -9330, -9332, -9334, -9337, -9339, -9341,
      -9343, -9346, -9348, -9350, -9352, -9354, -9357, -9359, -9361, -9363, -9365, -9368, -9370, -9372, -9374, -9376, -9379, -9381, -9383, -9385,
      -9387, -9390, -9392, -9394, -9396, -9398, -9400, -9402, -9405, -9407, -9409, -9411, -9413, -9415, -9417, -9419, -9422, -9424, -9426, -9428,
      -9430, -9432, -9434, -9436, -9438, -9440, -9442, -9444, -9447, -9449, -9451, -9453, -9455, -9457, -9459, -9461, -9463, -9465, -9467, -9469,
      -9471, -9473, -9475, -9477, -9479, -9481, -9483, -9485, -9487, -9489, -9491, -9493, -9495, -9497, -9499, -9501, -9503, -9505, -9507, -9509,
      -9511, -9513, -9514, -9516, -9518, -9520, -9522, -9524, -9526, -9528, -9530, -9532, -9534, -9535, -9537, -9539, -9541, -9543, -9545, -9547,
      -9549, -9551, -9552, -9554, -9556, -9558, -9560, -9562, -9563, -9565, -9567, -9569, -9571, -9573, -9574, -9576, -9578, -9580, -9582, -9583,
      -9585, -9587, -9589, -9591, -9592, -9594, -9596, -9598, -9599, -9601, -9603, -9605, -9606, -9608, -9610, -9612, -9613, -9615, -9617, -9619,
      -9620, -9622, -9624, -9625, -9627, -9629, -9630, -9632, -9634, -9636, -9637, -9639, -9641, -9642, -9644, -9646, -9647, -9649, -9651, -9652,
      -9654, -9655, -9657, -9659, -9660, -9662, -9664, -9665, -9667, -9668, -9670, -9672, -9673, -9675, -9676, -9678, -9680, -9681, -9683, -9684,
      -9686, -9687, -9689, -9691, -9692, -9694, -9695, -9697, -9698, -9700, -9701, -9703, -9704, -9706, -9707, -9709, -9710, -9712, -9713, -9715,
      -9716, -9718, -9719, -9721, -9722, -9724, -9725, -9727, -9728, -9730, -9731, -9732, -9734, -9735, -9737, -9738, -9740, -9741, -9742, -9744,
      -9745, -9747, -9748, -9749, -9751, -9752, -9754, -9755, -9756, -9758, -9759, -9761, -9762, -9763, -9765, -9766, -9767, -9769, -9770, -9771,
      -9773, -9774, -9775, -9777, -9778, -9779, -9781, -9782, -9783, -9785, -9786, -9787, -9788, -9790, -9791, -9792, -9794, -9795, -9796, -9797,
      -9799, -9800, -9801, -9802, -9804, -9805, -9806, -9807, -9808, -9810, -9811, -9812, -9813, -9815, -9816, -9817, -9818, -9819, -9821, -9822,
      -9823, -9824, -9825, -9826, -9828, -9829, -9830, -9831, -9832, -9833, -9834, -9836, -9837, -9838, -9839, -9840, -9841, -9842, -9843, -9845,
      -9846, -9847, -9848, -9849, -9850, -9851, -9852, -9853, -9854, -9855, -9856, -9858, -9859, -9860, -9861, -9862, -9863, -9864, -9865, -9866,
      -9867, -9868, -9869, -9870, -9871, -9872, -9873, -9874, -9875, -9876, -9877, -9878, -9879, -9880, -9881, -9882, -9883, -9884, -9885, -9886,
      -9887, -9887, -9888, -9889, -9890, -9891, -9892, -9893, -9894, -9895, -9896, -9897, -9898, -9898, -9899, -9900, -9901, -9902, -9903, -9904,
      -9905, -9905, -9906, -9907, -9908, -9909, -9910, -9911, -9911, -9912, -9913, -9914, -9915, -9916, -9916, -9917, -9918, -9919, -9920, -9920,
      -9921, -9922, -9923, -9923, -9924, -9925, -9926, -9927, -9927, -9928, -9929, -9930, -9930, -9931, -9932, -9933, -9933, -9934, -9935, -9935,
      -9936, -9937, -9938, -9938, -9939, -9940, -9940, -9941, -9942, -9942, -9943, -9944, -9944, -9945, -9946, -9946, -9947, -9948, -9948, -9949,
      -9950, -9950, -9951, -9951, -9952, -9953, -9953, -9954, -9954, -9955, -9956, -9956, -9957, -9957, -9958, -9959, -9959, -9960, -9960, -9961,
      -9961, -9962, -9962, -9963, -9964, -9964, -9965, -9965, -9966, -9966, -9967, -9967, -9968, -9968, -9969, -9969, -9970, -9970, -9971, -9971,
      -9972, -9972, -9973, -9973, -9973, -9974, -9974, -9975, -9975, -9976, -9976, -9977, -9977, -9977, -9978, -9978, -9979, -9979, -9979, -9980,
      -9980, -9981, -9981, -9981, -9982, -9982, -9983, -9983, -9983, -9984, -9984, -9984, -9985, -9985, -9985, -9986, -9986, -9986, -9987, -9987,
      -9987, -9988, -9988, -9988, -9989, -9989, -9989, -9989, -9990, -9990, -9990, -9991, -9991, -9991, -9991, -9992, -9992, -9992, -9992, -9993,
      -9993, -9993, -9993, -9994, -9994, -9994, -9994, -9994, -9995, -9995, -9995, -9995, -9995, -9996, -9996, -9996, -9996, -9996, -9997, -9997,
      -9997, -9997, -9997, -9997, -9997, -9998, -9998, -9998, -9998, -9998, -9998, -9998, -9998, -9999, -9999, -9999, -9999, -9999, -9999, -9999,
      -9999, -9999, -9999, -9999, -9999, -10000, -10000, -10000, -10000, -10000, -10000, -10000, -10000, -10000, -10000, -10000, -10000, -10000, -10000, -10000,
      -10000, -10000, -10000, -10000, -10000, -10000, -10000, -10000, -10000, -10000, -10000, -10000, -10000, -10000, -10000, -10000, -9999, -9999, -9999, -9999,
      -9999, -9999, -9999, -9999, -9999, -9999, -9999, -9999, -9998, -9998, -9998, -9998, -9998, -9998, -9998, -9998, -9997, -9997, -9997, -9997,
      -9997, -9997, -9997, -9996, -9996, -9996, -9996, -9996, -9995, -9995, -9995, -9995, -9995, -9994, -9994, -9994, -9994, -9994, -9993, -9993,
      -9993, -9993, -9992, -9992, -9992, -9992, -9991, -9991, -9991, -9991, -9990, -9990, -9990, -9989, -9989, -9989, -9989, -9988, -9988, -9988,
      -9987, -9987, -9987, -9986, -9986, -9986, -9985, -9985, -9985, -9984, -9984, -9984, -9983, -9983, -9983, -9982, -9982, -9981, -9981, -9981,
      -9980, -9980, -9979, -9979, -9979, -9978, -9978, -9977, -9977, -9977, -9976, -9976, -9975, -9975, -9974, -9974, -9973, -9973, -9973, -9972,
      -9972, -9971, -9971, -9970, -9970, -9969, -9969, -9968, -9968, -9967, -9967, -9966, -9966, -9965, -9965, -9964, -9964, -9963, -9962, -9962,
      -9961, -9961, -9960, -9960, -9959, -9959, -9958, -9957, -9957, -9956, -9956, -9955, -9954, -9954, -9953, -9953, -9952, -9951, -9951, -9950,
      -9950, -9949, -9948, -9948, -9947, -9946, -9946, -9945, -9944, -9944, -9943, -9942, -9942, -9941, -9940, -9940, -9939, -9938, -9938, -9937,
      -9936, -9935, -9935, -9934, -9933, -9933, -9932, -9931, -9930, -9930, -9929, -9928, -9927, -9927, -9926, -9925, -9924, -9923, -9923, -9922,
      -9921, -9920, -9920, -9919, -9918, -9917, -9916, -9916, -9915, -9914, -9913, -9912, -9911, -9911, -9910, -9909, -9908, -9907, -9906, -9905,
      -9905, -9904, -9903, -9902, -9901, -9900, -9899, -9898, -9898, -9897, -9896, -9895, -9894, -9893, -9892, -9891, -9890, -9889, -9888, -9887,
      -9887, -9886, -9885, -9884, -9883, -9882, -9881, -9880, -9879, -9878, -9877, -9876, -9875, -9874, -9873, -9872, -9871, -9870, -9869, -9868,
      -9867, -9866, -9865, -9864, -9863, -9862, -9861, -9860, -9859, -9858, -9856, -9855, -9854, -9853, -9852, -9851, -9850, -9849, -9848, -9847,
      -9846, -9845, -9843, -9842, -9841, -9840, -9839, -9838, -9837, -9836, -9834, -9833, -9832, -9831, -9830, -9829, -9828, -9826, -9825, -9824,
      -9823, -9822, -9821, -9819, -9818, -9817, -9816, -9815, -9813, -9812, -9811, -9810, -9808, -9807, -9806, -9805, -9804, -9802, -9801, -9800,
      -9799, -9797, -9796, -9795, -9794, -9792, -9791, -9790, -9788, -9787, -9786, -9785, -9783, -9782, -9781, -9779, -9778, -9777, -9775, -9774,
      -9773, -9771, -9770, -9769, -9767, -9766, -9765, -9763, -9762, -9761, -9759, -9758, -9756, -9755, -9754, -9752, -9751, -9749, -9748, -9747,
      -9745, -9744, -9742, -9741, -9740, -9738, -9737, -9735, -9734, -9732, -9731, -9730, -9728, -9727, -9725, -9724, -9722, -9721, -9719, -9718,
      -9716, -9715, -9713, -9712, -9710, -9709, -9707, -9706, -9704, -9703, -9701, -9700, -9698, -9697, -9695, -9694, -9692, -9691, -9689, -9687,
      -9686, -9684, -9683, -9681, -9680, -9678, -9676, -9675, -9673, -9672, -9670, -9668, -9667, -9665, -9664, -9662, -9660, -9659, -9657, -9655,
      -9654, -9652, -9651, -9649, -9647, -9646, -9644, -9642, -9641, -9639, -9637, -9636, -9634, -9632, -9630, -9629, -9627, -9625, -9624, -9622,
      -9620, -9619, -9617, -9615, -9613, -9612, -9610, -9608, -9606, -9605, -9603, -9601, -9599, -9598, -9596, -9594, -9592, -9591, -9589, -9587,
      -9585, -9583, -9582, -9580, -9578, -9576, -9574, -9573, -9571, -9569, -9567, -9565, -9563, -9562, -9560, -9558, -9556, -9554, -9552, -9551,
      -9549, -9547, -9545, -9543, -9541, -9539, -9537, -9535, -9534, -9532, -9530, -9528, -9526, -9524, -9522, -9520, -9518, -9516, -9514, -9513,
      -9511, -9509, -9507, -9505, -9503, -9501, -9499, -9497, -9495, -9493, -9491, -9489, -9487, -9485, -9483, -9481, -9479, -9477, -9475, -9473,
      -9471, -9469, -9467, -9465, -9463, -9461, -9459, -9457, -9455, -9453, -9451, -9449, -9447, -9444, -9442, -9440, -9438, -9436, -9434, -9432,
      -9430, -9428, -9426, -9424, -9422, -9419, -9417, -9415, -9413, -9411, -9409, -9407, -9405, -9402, -9400, -9398, -9396, -9394, -9392, -9390,
      -9387, -9385, -9383, -9381, -9379, -9376, -9374, -9372, -9370, -9368, -9365, -9363, -9361, -9359, -9357, -9354, -9352, -9350, -9348, -9346,
      -9343, -9341, -9339, -9337, -9334, -9332, -9330, -9328, -9325, -9323, -9321, -9318, -9316, -9314, -9312, -9309, -9307, -9305, -9302, -9300,
      -9298, -9295, -9293, -9291, -9288, -9286, -9284, -9281, -9279, -9277, -9274, -9272, -9270, -9267, -9265, -9263, -9260, -9258, -9256, -9253,
      -9251, -9248, -9246, -9244, -9241, -9239, -9236, -9234, -9232, -9229, -9227, -9224, -9222, -9219, -9217, -9215, -9212, -9210, -9207, -9205,
      -9202, -9200, -9197, -9195, -9192, -9190, -9187, -9185, -9183, -9180, -9178, -9175, -9173, -9170, -9168, -9165, -9163, -9160, -9157, -9155,
      -9152, -9150, -9147, -9145, -9142, -9140, -9137, -9135, -9132, -9129, -9127, -9124, -9122, -9119, -9117, -9114, -9111, -9109, -9106, -9104,
      -9101, -9098, -9096, -9093, -9091, -9088, -9085, -9083, -9080, -9077, -9075, -9072, -9070, -9067, -9064, -9062, -9059, -9056, -9054, -9051,
      -9048, -9046, -9043, -9040, -9038, -9035, -9032, -9029, -9027, -9024, -9021, -9019, -9016, -9013, -9010, -9008, -9005, -9002, -9000, -8997,
      -8994, -8991, -8989, -8986, -8983, -8980, -8978, -8975, -8972, -8969, -8966, -8964, -8961, -8958, -8955, -8952, -8950, -8947, -8944, -8941,
      -8938, -8936, -8933, -8930, -8927, -8924, -8921, -8919, -8916, -8913, -8910, -8907, -8904, -8901, -8899, -8896, -8893, -8890, -8887, -8884,
      -8881, -8878, -8876, -8873, -8870, -8867, -8864, -8861, -8858, -8855, -8852, -8849, -8846, -8844, -8841, -8838, -8835, -8832, -8829, -8826,
      -8823, -8820, -8817, -8814, -8811, -8808, -8805, -8802, -8799, -8796, -8793, -8790, -8787, -8784, -8781, -8778, -8775, -8772, -8769, -8766,
      -8763, -8760, -8757, -8754, -8751, -8748, -8745, -8742, -8739, -8736, -8733, -8730, -8726, -8723, -8720, -8717, -8714, -8711, -8708, -8705,
      -8702, -8699, -8696, -8693, -8689, -8686, -8683, -8680, -8677, -8674, -8671, -8668, -8664, -8661, -8658, -8655, -8652, -8649, -8646, -8642,
      -8639, -8636, -8633, -8630, -8627, -8623, -8620, -8617, -8614, -8611, -8607, -8604, -8601, -8598, -8595, -8591, -8588, -8585, -8582, -8578,
      -8575, -8572, -8569, -8566, -8562, -8559, -8556, -8553, -8549, -8546, -8543, -8540, -8536, -8533, -8530, -8526, -8523, -8520, -8517, -8513,
      -8510, -8507, -8503, -8500, -8497, -8493, -8490, -8487, -8483, -8480, -8477, -8473, -8470, -8467, -8463, -8460, -8457, -8453, -8450, -8447,
      -8443, -8440, -8437, -8433, -8430, -8426, -8423, -8420, -8416, -8413, -8409, -8406, -8403, -8399, -8396, -8392, -8389, -8386, -8382, -8379,
      -8375, -8372, -8368, -8365, -8362, -8358, -8355, -8351, -8348, -8344, -8341, -8337, -8334, -8330, -8327, -8323, -8320, -8316, -8313, -8309,
      -8306, -8302, -8299, -8295, -8292, -8288, -8285, -8281, -8278, -8274, -8271, -8267, -8264, -8260, -8257, -8253, -8250, -8246, -8242, -8239,
      -8235, -8232, -8228, -8225, -8221, -8217, -8214, -8210, -8207, -8203, -8200, -8196, -8192, -8189, -8185, -8181, -8178, -8174, -8171, -8167,
      -8163, -8160, -8156, -8152, -8149, -8145, -8142, -8138, -8134, -8131, -8127, -8123, -8120, -8116, -8112, -8109, -8105, -8101, -8098, -8094,
      -8090, -8086, -8083, -8079, -8075, -8072, -8068, -8064, -8061, -8057, -8053, -8049, -8046, -8042, -8038, -8034, -8031, -8027, -8023, -8019,
      -8016, -8012, -8008, -8004, -8001, -7997, -7993, -7989, -7986, -7982, -7978, -7974, -7970, -7967, -7963, -7959, -7955, -7951, -7948, -7944,
      -7940, -7936, -7932, -7928, -7925, -7921, -7917, -7913, -7909, -7905, -7902, -7898, -7894, -7890, -7886, -7882, -7878, -7875, -7871, -7867,
      -7863, -7859, -7855, -7851, -7847, -7843, -7840, -7836, -7832, -7828, -7824, -7820, -7816, -7812, -7808, -7804, -7800, -7796, -7793, -7789,
      -7785, -7781, -7777, -7773, -7769, -7765, -7761, -7757, -7753, -7749, -7745, -7741, -7737, -7733, -7729, -7725, -7721, -7717, -7713, -7709,
      -7705, -7701, -7697, -7693, -7689, -7685, -7681, -7677, -7673, -7669, -7665, -7661, -7657, -7653, -7649, -7645, -7641, -7637, -7633, -7628,
      -7624, -7620, -7616, -7612, -7608, -7604, -7600, -7596, -7592, -7588, -7584, -7580, -7575, -7571, -7567, -7563, -7559, -7555, -7551, -7547,
      -7543, -7538, -7534, -7530, -7526, -7522, -7518, -7514, -7509, -7505, -7501, -7497, -7493, -7489, -7484, -7480, -7476, -7472, -7468, -7464,
      -7459, -7455, -7451, -7447, -7443, -7438, -7434, -7430, -7426, -7422, -7417, -7413, -7409, -7405, -7401, -7396, -7392, -7388, -7384, -7379,
      -7375, -7371, -7367, -7362, -7358, -7354, -7350, -7345, -7341, -7337, -7333, -7328, -7324, -7320, -7315, -7311, -7307, -7303, -7298, -7294,
      -7290, -7285, -7281, -7277, -7272, -7268, -7264, -7260, -7255, -7251, -7247, -7242, -7238, -7234, -7229, -7225, -7221, -7216, -7212, -7207,
      -7203, -7199, -7194, -7190, -7186, -7181, -7177, -7173, -7168, -7164, -7159, -7155, -7151, -7146, -7142, -7137, -7133, -7129, -7124, -7120,
      -7115, -7111, -7107, -7102, -7098, -7093, -7089, -7084, -7080, -7076, -7071, -7067, -7062, -7058, -7053, -7049, -7044, -7040, -7035, -7031,
      -7026, -7022, -7018, -7013, -7009, -7004, -7000, -6995, -6991, -6986, -6982, -6977, -6973, -6968, -6964, -6959, -6955, -6950, -6946, -6941,
      -6937, -6932, -6927, -6923, -6918, -6914, -6909, -6905, -6900, -6896, -6891, -6887, -6882, -6877, -6873, -6868, -6864, -6859, -6855, -6850,
      -6845, -6841, -6836, -6832, -6827, -6823, -6818, -6813, -6809, -6804, -6800, -6795, -6790, -6786, -6781, -6776, -6772, -6767, -6763, -6758,
      -6753, -6749, -6744, -6739, -6735, -6730, -6725, -6721, -6716, -6712, -6707, -6702, -6698, -6693, -6688, -6684, -6679, -6674, -6669, -6665,
      -6660, -6655, -6651, -6646, -6641, -6637, -6632, -6627, -6623, -6618, -6613, -6608, -6604, -6599, -6594, -6590, -6585, -6580, -6575, -6571,
      -6566, -6561, -6556, -6552, -6547, -6542, -6537, -6533, -6528, -6523, -6518, -6514, -6509, -6504, -6499, -6494, -6490, -6485, -6480, -6475,
      -6471, -6466, -6461, -6456, -6451, -6447, -6442, -6437, -6432, -6427, -6423, -6418, -6413, -6408, -6403, -6398, -6394, -6389, -6384, -6379,
      -6374, -6369, -6365, -6360, -6355, -6350, -6345, -6340, -6335, -6331, -6326, -6321, -6316, -6311, -6306, -6301, -6296, -6292, -6287, -6282,
      -6277, -6272, -6267, -6262, -6257, -6252, -6248, -6243, -6238, -6233, -6228, -6223, -6218, -6213, -6208, -6203, -6198, -6193, -6188, -6184,
      -6179, -6174, -6169, -6164, -6159, -6154, -6149, -6144, -6139, -6134, -6129, -6124, -6119, -6114, -6109, -6104, -6099, -6094, -6089, -6084,
      -6079, -6074, -6069, -6064, -6059, -6054, -6049, -6044, -6039, -6034, -6029, -6024, -6019, -6014, -6009, -6004, -5999, -5994, -5989, -5984,
      -5979, -5974, -5969, -5964, -5959, -5954, -5949, -5944, -5939, -5934, -5929, -5924, -5918, -5913, -5908, -5903, -5898, -5893, -5888, -5883,
      -5878, -5873, -5868, -5863, -5858, -5852, -5847, -5842, -5837, -5832, -5827, -5822, -5817, -5812, -5806, -5801, -5796, -5791, -5786, -5781,
      -5776, -5771, -5765, -5760, -5755, -5750, -5745, -5740, -5735, -5729, -5724, -5719, -5714, -5709, -5704, -5699, -5693, -5688, -5683, -5678,
      -5673, -5668, -5662, -5657, -5652, -5647, -5642, -5636, -5631, -5626, -5621, -5616, -5610, -5605, -5600, -5595, -5590, -5584, -5579, -5574,
      -5569, -5564, -5558, -5553, -5548, -5543, -5537, -5532, -5527, -5522, -5516, -5511, -5506, -5501, -5495, -5490, -5485, -5480, -5474, -5469,
      -5464, -5459, -5453, -5448, -5443, -5438, -5432, -5427, -5422, -5416, -5411, -5406, -5401, -5395, -5390, -5385, -5379, -5374, -5369, -5364,
      -5358, -5353, -5348, -5342, -5337, -5332, -5326, -5321, -5316, -5310, -5305, -5300, -5294, -5289, -5284, -5278, -5273, -5268, -5262, -5257,
      -5252, -5246, -5241, -5236, -5230, -5225, -5220, -5214, -5209, -5204, -5198, -5193, -5187, -5182, -5177, -5171, -5166, -5161, -5155, -5150,
      -5144, -5139, -5134, -5128, -5123, -5117, -5112, -5107, -5101, -5096, -5090, -5085, -5080, -5074, -5069, -5063, -5058, -5053, -5047, -5042,
      -5036, -5031, -5025, -5020, -5015, -5009, -5004, -4998, -4993, -4987, -4982, -4976, -4971, -4965, -4960, -4955, -4949, -4944, -4938, -4933,
      -4927, -4922, -4916, -4911, -4905, -4900, -4894, -4889, -4883, -4878, -4873, -4867, -4862, -4856, -4851, -4845, -4840, -4834, -4829, -4823,
      -4818, -4812, -4807, -4801, -4795, -4790, -4784, -4779, -4773, -4768, -4762, -4757, -4751, -4746, -4740, -4735, -4729, -4724, -4718, -4713,
      -4707, -4701, -4696, -4690, -4685, -4679, -4674, -4668, -4663, -4657, -4652, -4646, -4640, -4635, -4629, -4624, -4618, -4613, -4607, -4601,
      -4596, -4590, -4585, -4579, -4573, -4568, -4562, -4557, -4551, -4546, -4540, -4534, -4529, -4523, -4517, -4512, -4506, -4501, -4495, -4489,
      -4484, -4478, -4473, -4467, -4461, -4456, -4450, -4444, -4439, -4433, -4428, -4422, -4416, -4411, -4405, -4399, -4394, -4388, -4382, -4377,
      -4371, -4366, -4360, -4354, -4349, -4343, -4337, -4332, -4326, -4320, -4315, -4309, -4303, -4298, -4292, -4286, -4281, -4275, -4269, -4263,
      -4258, -4252, -4246, -4241, -4235, -4229, -4224, -4218, -4212, -4207, -4201, -4195, -4189, -4184, -4178, -4172, -4167, -4161, -4155, -4149,
      -4144, -4138, -4132, -4127, -4121, -4115, -4109, -4104, -4098, -4092, -4086, -4081, -4075, -4069, -4064, -4058, -4052, -4046, -4041, -4035,
      -4029, -4023, -4018, -4012, -4006, -4000, -3995, -3989, -3983, -3977, -3971, -3966, -3960, -3954, -3948, -3943, -3937, -3931, -3925, -3920,
      -3914, -3908, -3902, -3896, -3891, -3885, -3879, -3873, -3867, -3862, -3856, -3850, -3844, -3838, -3833, -3827, -3821, -3815, -3809, -3804,
      -3798, -3792, -3786, -3780, -3775, -3769, -3763, -3757, -3751, -3745, -3740, -3734, -3728, -3722, -3716, -3710, -3705, -3699, -3693, -3687,
      -3681, -3675, -3670, -3664, -3658, -3652, -3646, -3640, -3634, -3629, -3623, -3617, -3611, -3605, -3599, -3593, -3588, -3582, -3576, -3570,
      -3564, -3558, -3552, -3547, -3541, -3535, -3529, -3523, -3517, -3511, -3505, -3499, -3494, -3488, -3482, -3476, -3470, -3464, -3458, -3452,
      -3446, -3441, -3435, -3429, -3423, -3417, -3411, -3405, -3399, -3393, -3387, -3381, -3376, -3370, -3364, -3358, -3352, -3346, -3340, -3334,
      -3328, -3322, -3316, -3310, -3304, -3299, -3293, -3287, -3281, -3275, -3269, -3263, -3257, -3251, -3245, -3239, -3233, -3227, -3221, -3215,
      -3209, -3203, -3198, -3192, -3186, -3180, -3174, -3168, -3162, -3156, -3150, -3144, -3138, -3132, -3126, -3120, -3114, -3108, -3102, -3096,
      -3090, -3084, -3078, -3072, -3066, -3060, -3054, -3048, -3042, -3036, -3030, -3024, -3018, -3012, -3006, -3000, -2994, -2988, -2982, -2976,
      -2970, -2964, -2958, -2952, -2946, -2940, -2934, -2928, -2922, -2916, -2910, -2904, -2898, -2892, -2886, -2880, -2874, -2868, -2862, -2856,
      -2850, -2844, -2838, -2832, -2826, -2820, -2814, -2808, -2802, -2796, -2790, -2784, -2778, -2772, -2766, -2760, -2754, -2748, -2742, -2736,
      -2730, -2723, -2717, -2711, -2705, -2699, -2693, -2687, -2681, -2675, -2669, -2663, -2657, -2651, -2645, -2639, -2633, -2627, -2621, -2614,
      -2608, -2602, -2596, -2590, -2584, -2578, -2572, -2566, -2560, -2554, -2548, -2542, -2536, -2529, -2523, -2517, -2511, -2505, -2499, -2493,
      -2487, -2481, -2475, -2469, -2463, -2456, -2450, -2444, -2438, -2432, -2426, -2420, -2414, -2408, -2402, -2396, -2389, -2383, -2377, -2371,
      -2365, -2359, -2353, -2347, -2341, -2334, -2328, -2322, -2316, -2310, -2304, -2298, -2292, -2286, -2279, -2273, -2267, -2261, -2255, -2249,
      -2243, -2237, -2230, -2224, -2218, -2212, -2206, -2200, -2194, -2188, -2181, -2175, -2169, -2163, -2157, -2151, -2145, -2138, -2132, -2126,
      -2120, -2114, -2108, -2102, -2096, -2089, -2083, -2077, -2071, -2065, -2059, -2052, -2046, -2040, -2034, -2028, -2022, -2016, -2009, -2003,
      -1997, -1991, -1985, -1979, -1972, -1966, -1960, -1954, -1948, -1942, -1935, -1929, -1923, -1917, -1911, -1905, -1898, -1892, -1886, -1880,
      -1874, -1868, -1861, -1855, -1849, -1843, -1837, -1831, -1824, -1818, -1812, -1806, -1800, -1794, -1787, -1781, -1775, -1769, -1763, -1756,
      -1750, -1744, -1738, -1732, -1725, -1719, -1713, -1707, -1701, -1695, -1688, -1682, -1676, -1670, -1664, -1657, -1651, -1645, -1639, -1633,
      -1626, -1620, -1614, -1608, -1602, -1595, -1589, -1583, -1577, -1571, -1564, -1558, -1552, -1546, -1540, -1533, -1527, -1521, -1515, -1508,
      -1502, -1496, -1490, -1484, -1477, -1471, -1465, -1459, -1453, -1446, -1440, -1434, -1428, -1421, -1415, -1409, -1403, -1397, -1390, -1384,
      -1378, -1372, -1365, -1359, -1353, -1347, -1341, -1334, -1328, -1322, -1316, -1309, -1303, -1297, -1291, -1284, -1278, -1272, -1266, -1260,
      -1253, -1247, -1241, -1235, -1228, -1222, -1216, -1210, -1203, -1197, -1191, -1185, -1178, -1172, -1166, -1160, -1154, -1147, -1141, -1135,
      -1129, -1122, -1116, -1110, -1104, -1097, -1091, -1085, -1079, -1072, -1066, -1060, -1054, -1047, -1041, -1035, -1029, -1022, -1016, -1010,
      -1004, -997, -991, -985, -979, -972, -966, -960, -954, -947, -941, -935, -929, -922, -916, -910, -904, -897, -891, -885,
      -879, -872, -866, -860, -853, -847, -841, -835, -828, -822, -816, -810, -803, -797, -791, -785, -778, -772, -766, -760,
      -753, -747, -741, -734, -728, -722, -716, -709, -703, -697, -691, -684, -678, -672, -666, -659, -653, -647, -640, -634,
      -628, -622, -615, -609, -603, -597, -590, -584, -578, -571, -565, -559, -553, -546, -540, -534, -528, -521, -515, -509,
      -502, -496, -490, -484, -477, -471, -465, -459, -452, -446, -440, -433, -427, -421, -415, -408, -402, -396, -389, -383,
      -377, -371, -364, -358, -352, -346, -339, -333, -327, -320, -314, -308, -302, -295, -289, -283, -276, -270, -264, -258,
      -251, -245, -239, -232, -226, -220, -214, -207, -201, -195, -188, -182, -176, -170, -163, -157, -151, -145, -138, -132,
      -126, -119, -113, -107, -101, -94, -88, -82, -75, -69, -63, -57, -50, -44, -38, -31, -25, -19, -13, -6,
      0, 6, 13, 19, 25, 31, 38, 44, 50, 57, 63, 69, 75, 82, 88, 94, 101, 107, 113, 119,
      126, 132, 138, 145, 151, 157, 163, 170, 176, 182, 188, 195, 201, 207, 214, 220, 226, 232, 239, 245,
      251, 258, 264, 270, 276, 283, 289, 295, 302, 308, 314, 320, 327, 333, 339, 346, 352, 358, 364, 371,
      377, 383, 389, 396, 402, 408, 415, 421, 427, 433, 440, 446, 452, 459, 465, 471, 477, 484, 490, 496,
      502, 509, 515, 521, 528, 534, 540, 546, 553, 559, 565, 571, 578, 584, 590, 597, 603, 609, 615, 622,
      628, 634, 640, 647, 653, 659, 666, 672, 678, 684, 691, 697, 703, 709, 716, 722, 728, 734, 741, 747,
      753, 760, 766, 772, 778, 785, 791, 797, 803, 810, 816, 822, 828, 835, 841, 847, 853, 860, 866, 872,
      879, 885, 891, 897, 904, 910, 916, 922, 929, 935, 941, 947, 954, 960, 966, 972, 979, 985, 991, 997,
      1004, 1010, 1016, 1022, 1029, 1035, 1041, 1047, 1054, 1060, 1066, 1072, 1079, 1085, 1091, 1097, 1104, 1110, 1116, 1122,
      1129, 1135, 1141, 1147, 1154, 1160, 1166, 1172, 1178, 1185, 1191, 1197, 1203, 1210, 1216, 1222, 1228, 1235, 1241, 1247,
      1253, 1260, 1266, 1272, 1278, 1284, 1291, 1297, 1303, 1309, 1316, 1322, 1328, 1334, 1341, 1347, 1353, 1359, 1365, 1372,
      1378, 1384, 1390, 1397, 1403, 1409, 1415, 1421, 1428, 1434, 1440, 1446, 1453, 1459, 1465, 1471, 1477, 1484, 1490, 1496,
      1502, 1508, 1515, 1521, 1527, 1533, 1540, 1546, 1552, 1558, 1564, 1571, 1577, 1583, 1589, 1595, 1602, 1608, 1614, 1620,
      1626, 1633, 1639, 1645, 1651, 1657, 1664, 1670, 1676, 1682, 1688, 1695, 1701, 1707, 1713, 1719, 1725, 1732, 1738, 1744,
      1750, 1756, 1763, 1769, 1775, 1781, 1787, 1794, 1800, 1806, 1812, 1818, 1824, 1831, 1837, 1843, 1849, 1855, 1861, 1868,
      1874, 1880, 1886, 1892, 1898, 1905, 1911, 1917, 1923, 1929, 1935, 1942, 1948, 1954, 1960, 1966, 1972, 1979, 1985, 1991,
      1997, 2003, 2009, 2016, 2022, 2028, 2034, 2040, 2046, 2052, 2059, 2065, 2071, 2077, 2083, 2089, 2096, 2102, 2108, 2114,
      2120, 2126, 2132, 2138, 2145, 2151, 2157, 2163, 2169, 2175, 2181, 2188, 2194, 2200, 2206, 2212, 2218, 2224, 2230, 2237,
      2243, 2249, 2255, 2261, 2267, 2273, 2279, 2286, 2292, 2298, 2304, 2310, 2316, 2322, 2328, 2334, 2341, 2347, 2353, 2359,
      2365, 2371, 2377, 2383, 2389, 2396, 2402, 2408, 2414, 2420, 2426, 2432, 2438, 2444, 2450, 2456, 2463, 2469, 2475, 2481,
      2487, 2493, 2499, 2505, 2511, 2517, 2523, 2529, 2536, 2542, 2548, 2554, 2560, 2566, 2572, 2578, 2584, 2590, 2596, 2602,
      2608, 2614, 2621, 2627, 2633, 2639, 2645, 2651, 2657, 2663, 2669, 2675, 2681, 2687, 2693, 2699, 2705, 2711, 2717, 2723,
      2730, 2736, 2742, 2748, 2754, 2760, 2766, 2772, 2778, 2784, 2790, 2796, 2802, 2808, 2814, 2820, 2826, 2832, 2838, 2844,
      2850, 2856, 2862, 2868, 2874, 2880, 2886, 2892, 2898, 2904, 2910, 2916, 2922, 2928, 2934, 2940, 2946, 2952, 2958, 2964,
      2970, 2976, 2982, 2988, 2994, 3000, 3006, 3012, 3018, 3024, 3030, 3036, 3042, 3048, 3054, 3060, 3066, 3072, 3078, 3084,
      3090, 3096, 3102, 3108, 3114, 3120, 3126, 3132, 3138, 3144, 3150, 3156, 3162, 3168, 3174, 3180, 3186, 3192, 3198, 3203,
      3209, 3215, 3221, 3227, 3233, 3239, 3245, 3251, 3257, 3263, 3269, 3275, 3281, 3287, 3293, 3299, 3304, 3310, 3316, 3322,
      3328, 3334, 3340, 3346, 3352, 3358, 3364, 3370, 3376, 3381, 3387, 3393, 3399, 3405, 3411, 3417, 3423, 3429, 3435, 3441,
      3446, 3452, 3458, 3464, 3470, 3476, 3482, 3488, 3494, 3499, 3505, 3511, 3517, 3523, 3529, 3535, 3541, 3547, 3552, 3558,
      3564, 3570, 3576, 3582, 3588, 3593, 3599, 3605, 3611, 3617, 3623, 3629, 3634, 3640, 3646, 3652, 3658, 3664, 3670, 3675,
      3681, 3687, 3693, 3699, 3705, 3710, 3716, 3722, 3728, 3734, 3740, 3745, 3751, 3757, 3763, 3769, 3775, 3780, 3786, 3792,
      3798, 3804, 3809, 3815, 3821, 3827, 3833, 3838, 3844, 3850, 3856, 3862, 3867, 3873, 3879, 3885, 3891, 3896, 3902, 3908,
      3914, 3920, 3925, 3931, 3937, 3943, 3948, 3954, 3960, 3966, 3971, 3977, 3983, 3989, 3995, 4000, 4006, 4012, 4018, 4023,
      4029, 4035, 4041, 4046, 4052, 4058, 4064, 4069, 4075, 4081, 4086, 4092, 4098, 4104, 4109, 4115, 4121, 4127, 4132, 4138,
      4144, 4149, 4155, 4161, 4167, 4172, 4178, 4184, 4189, 4195, 4201, 4207, 4212, 4218, 4224, 4229, 4235, 4241, 4246, 4252,
      4258, 4263, 4269, 4275, 4281, 4286, 4292, 4298, 4303, 4309, 4315, 4320, 4326, 4332, 4337, 4343, 4349, 4354, 4360, 4366,
      4371, 4377, 4382, 4388, 4394, 4399, 4405, 4411, 4416, 4422, 4428, 4433, 4439, 4444, 4450, 4456, 4461, 4467, 4473, 4478,
      4484, 4489, 4495, 4501, 4506, 4512, 4517, 4523, 4529, 4534, 4540, 4546, 4551, 4557, 4562, 4568, 4573, 4579, 4585, 4590,
      4596, 4601, 4607, 4613, 4618, 4624, 4629, 4635, 4640, 4646, 4652, 4657, 4663, 4668, 4674, 4679, 4685, 4690, 4696, 4701,
      4707, 4713, 4718, 4724, 4729, 4735, 4740, 4746, 4751, 4757, 4762, 4768, 4773, 4779, 4784, 4790, 4795, 4801, 4807, 4812,
      4818, 4823, 4829, 4834, 4840, 4845, 4851, 4856, 4862, 4867, 4873, 4878, 4883, 4889, 4894, 4900, 4905, 4911, 4916, 4922,
      4927, 4933, 4938, 4944, 4949, 4955, 4960, 4965, 4971, 4976, 4982, 4987, 4993, 4998, 5004, 5009, 5015, 5020, 5025, 5031,
      5036, 5042, 5047, 5053, 5058, 5063, 5069, 5074, 5080, 5085, 5090, 5096, 5101, 5107, 5112, 5117, 5123, 5128, 5134, 5139,
      5144, 5150, 5155, 5161, 5166, 5171, 5177, 5182, 5187, 5193, 5198, 5204, 5209, 5214, 5220, 5225, 5230, 5236, 5241, 5246,
      5252, 5257, 5262, 5268, 5273, 5278, 5284, 5289, 5294, 5300, 5305, 5310, 5316, 5321, 5326, 5332, 5337, 5342, 5348, 5353,
      5358, 5364, 5369, 5374, 5379, 5385, 5390, 5395, 5401, 5406, 5411, 5416, 5422, 5427, 5432, 5438, 5443, 5448, 5453, 5459,
      5464, 5469, 5474, 5480, 5485, 5490, 5495, 5501, 5506, 5511, 5516, 5522, 5527, 5532, 5537, 5543, 5548, 5553, 5558, 5564,
      5569, 5574, 5579, 5584, 5590, 5595, 5600, 5605, 5610, 5616, 5621, 5626, 5631, 5636, 5642, 5647, 5652, 5657, 5662, 5668,
      5673, 5678, 5683, 5688, 5693, 5699, 5704, 5709, 5714, 5719, 5724, 5729, 5735, 5740, 5745, 5750, 5755, 5760, 5765, 5771,
      5776, 5781, 5786, 5791, 5796, 5801, 5806, 5812, 5817, 5822, 5827, 5832, 5837, 5842, 5847, 5852, 5858, 5863, 5868, 5873,
      5878, 5883, 5888, 5893, 5898, 5903, 5908, 5913, 5918, 5924, 5929, 5934, 5939, 5944, 5949, 5954, 5959, 5964, 5969, 5974,
      5979, 5984, 5989, 5994, 5999, 6004, 6009, 6014, 6019, 6024, 6029, 6034, 6039, 6044, 6049, 6054, 6059, 6064, 6069, 6074,
      6079, 6084, 6089, 6094, 6099, 6104, 6109, 6114, 6119, 6124, 6129, 6134, 6139, 6144, 6149, 6154, 6159, 6164, 6169, 6174,
      6179, 6184, 6188, 6193, 6198, 6203, 6208, 6213, 6218, 6223, 6228, 6233, 6238, 6243, 6248, 6252, 6257, 6262, 6267, 6272,
      6277, 6282, 6287, 6292, 6296, 6301, 6306, 6311, 6316, 6321, 6326, 6331, 6335, 6340, 6345, 6350, 6355, 6360, 6365, 6369,
      6374, 6379, 6384, 6389, 6394, 6398, 6403, 6408, 6413, 6418, 6423, 6427, 6432, 6437, 6442, 6447, 6451, 6456, 6461, 6466,
      6471, 6475, 6480, 6485, 6490, 6494, 6499, 6504, 6509, 6514, 6518, 6523, 6528, 6533, 6537, 6542, 6547, 6552, 6556, 6561,
      6566, 6571, 6575, 6580, 6585, 6590, 6594, 6599, 6604, 6608, 6613, 6618, 6623, 6627, 6632, 6637, 6641, 6646, 6651, 6655,
      6660, 6665, 6669, 6674, 6679, 6684, 6688, 6693, 6698, 6702, 6707, 6712, 6716, 6721, 6725, 6730, 6735, 6739, 6744, 6749,
      6753, 6758, 6763, 6767, 6772, 6776, 6781, 6786, 6790, 6795, 6800, 6804, 6809, 6813, 6818, 6823, 6827, 6832, 6836, 6841,
      6845, 6850, 6855, 6859, 6864, 6868, 6873, 6877, 6882, 6887, 6891, 6896, 6900, 6905, 6909, 6914, 6918, 6923, 6927, 6932,
      6937, 6941, 6946, 6950, 6955, 6959, 6964, 6968, 6973, 6977, 6982, 6986, 6991, 6995, 7000, 7004, 7009, 7013, 7018, 7022,
      7026, 7031, 7035, 7040, 7044, 7049, 7053, 7058, 7062, 7067, 7071, 7076, 7080, 7084, 7089, 7093, 7098, 7102, 7107, 7111,
      7115, 7120, 7124, 7129, 7133, 7137, 7142, 7146, 7151, 7155, 7159, 7164, 7168, 7173, 7177, 7181, 7186, 7190, 7194, 7199,
      7203, 7207, 7212, 7216, 7221, 7225, 7229, 7234, 7238, 7242, 7247, 7251, 7255, 7260, 7264, 7268, 7272, 7277, 7281, 7285,
      7290, 7294, 7298, 7303, 7307, 7311, 7315, 7320, 7324, 7328, 7333, 7337, 7341, 7345, 7350, 7354, 7358, 7362, 7367, 7371,
      7375, 7379, 7384, 7388, 7392, 7396, 7401, 7405, 7409, 7413, 7417, 7422, 7426, 7430, 7434, 7438, 7443, 7447, 7451, 7455,
      7459, 7464, 7468, 7472, 7476, 7480, 7484, 7489, 7493, 7497, 7501, 7505, 7509, 7514, 7518, 7522, 7526, 7530, 7534, 7538,
      7543, 7547, 7551, 7555, 7559, 7563, 7567, 7571, 7575, 7580, 7584, 7588, 7592, 7596, 7600, 7604, 7608, 7612, 7616, 7620,
      7624, 7628, 7633, 7637, 7641, 7645, 7649, 7653, 7657, 7661, 7665, 7669, 7673, 7677, 7681, 7685, 7689, 7693, 7697, 7701,
      7705, 7709, 7713, 7717, 7721, 7725, 7729, 7733, 7737, 7741, 7745, 7749, 7753, 7757, 7761, 7765, 7769, 7773, 7777, 7781,
      7785, 7789, 7793, 7796, 7800, 7804, 7808, 7812, 7816, 7820, 7824, 7828, 7832, 7836, 7840, 7843, 7847, 7851, 7855, 7859,
      7863, 7867, 7871, 7875, 7878, 7882, 7886, 7890, 7894, 7898, 7902, 7905, 7909, 7913, 7917, 7921, 7925, 7928, 7932, 7936,
      7940, 7944, 7948, 7951, 7955, 7959, 7963, 7967, 7970, 7974, 7978, 7982, 7986, 7989, 7993, 7997, 8001, 8004, 8008, 8012,
      8016, 8019, 8023, 8027, 8031, 8034, 8038, 8042, 8046, 8049, 8053, 8057, 8061, 8064, 8068, 8072, 8075, 8079, 8083, 8086,
      8090, 8094, 8098, 8101, 8105, 8109, 8112, 8116, 8120, 8123, 8127, 8131, 8134, 8138, 8142, 8145, 8149, 8152, 8156, 8160,
      8163, 8167, 8171, 8174, 8178, 8181, 8185, 8189, 8192, 8196, 8200, 8203, 8207, 8210, 8214, 8217, 8221, 8225, 8228, 8232,
      8235, 8239, 8242, 8246, 8250, 8253, 8257, 8260, 8264, 8267, 8271, 8274, 8278, 8281, 8285, 8288, 8292, 8295, 8299, 8302,
      8306, 8309, 8313, 8316, 8320, 8323, 8327, 8330, 8334, 8337, 8341, 8344, 8348, 8351, 8355, 8358, 8362, 8365, 8368, 8372,
      8375, 8379, 8382, 8386, 8389, 8392, 8396, 8399, 8403, 8406, 8409, 8413, 8416, 8420, 8423, 8426, 8430, 8433, 8437, 8440,
      8443, 8447, 8450, 8453, 8457, 8460, 8463, 8467, 8470, 8473, 8477, 8480, 8483, 8487, 8490, 8493, 8497, 8500, 8503, 8507,
      8510, 8513, 8517, 8520, 8523, 8526, 8530, 8533, 8536, 8540, 8543, 8546, 8549, 8553, 8556, 8559, 8562, 8566, 8569, 8572,
      8575, 8578, 8582, 8585, 8588, 8591, 8595, 8598, 8601, 8604, 8607, 8611, 8614, 8617, 8620, 8623, 8627, 8630, 8633, 8636,
      8639, 8642, 8646, 8649, 8652, 8655, 8658, 8661, 8664, 8668, 8671, 8674, 8677, 8680, 8683, 8686, 8689, 8693, 8696, 8699,
      8702, 8705, 8708, 8711, 8714, 8717, 8720, 8723, 8726, 8730, 8733, 8736, 8739, 8742, 8745, 8748, 8751, 8754, 8757, 8760,
      8763, 8766, 8769, 8772, 8775, 8778, 8781, 8784, 8787, 8790, 8793, 8796, 8799, 8802, 8805, 8808, 8811, 8814, 8817, 8820,
      8823, 8826, 8829, 8832, 8835, 8838, 8841, 8844, 8846, 8849, 8852, 8855, 8858, 8861, 8864, 8867, 8870, 8873, 8876, 8878,
      8881, 8884, 8887, 8890, 8893, 8896, 8899, 8901, 8904, 8907, 8910, 8913, 8916, 8919, 8921, 8924, 8927, 8930, 8933, 8936,
      8938, 8941, 8944, 8947, 8950, 8952, 8955, 8958, 8961, 8964, 8966, 8969, 8972, 8975, 8978, 8980, 8983, 8986, 8989, 8991,
      8994, 8997, 9000, 9002, 9005, 9008, 9010, 9013, 9016, 9019, 9021, 9024, 9027, 9029, 9032, 9035, 9038, 9040, 9043, 9046,
      9048, 9051, 9054, 9056, 9059, 9062, 9064, 9067, 9070, 9072, 9075, 9077, 9080, 9083, 9085, 9088, 9091, 9093, 9096, 9098,
      9101, 9104, 9106, 9109, 9111, 9114, 9117, 9119, 9122, 9124, 9127, 9129, 9132, 9135, 9137, 9140, 9142, 9145, 9147, 9150,
      9152, 9155, 9157, 9160, 9163, 9165, 9168, 9170, 9173, 9175, 9178, 9180, 9183, 9185, 9187, 9190, 9192, 9195, 9197, 9200,
      9202, 9205, 9207, 9210, 9212, 9215, 9217, 9219, 9222, 9224, 9227, 9229, 9232, 9234, 9236, 9239, 9241, 9244, 9246, 9248,
      9251, 9253, 9256, 9258, 9260, 9263, 9265, 9267, 9270, 9272, 9274, 9277, 9279, 9281, 9284, 9286, 9288, 9291, 9293, 9295,
      9298, 9300, 9302, 9305, 9307, 9309, 9312, 9314, 9316, 9318, 9321, 9323, 9325, 9328, 9330, 9332, 9334, 9337, 9339, 9341,
      9343, 9346, 9348, 9350, 9352, 9354, 9357, 9359, 9361, 9363, 9365, 9368, 9370, 9372, 9374, 9376, 9379, 9381, 9383, 9385,
      9387, 9390, 9392, 9394, 9396, 9398, 9400, 9402, 9405, 9407, 9409, 9411, 9413, 9415, 9417, 9419, 9422, 9424, 9426, 9428,
      9430, 9432, 9434, 9436, 9438, 9440, 9442, 9444, 9447, 9449, 9451, 9453, 9455, 9457, 9459, 9461, 9463, 9465, 9467, 9469,
      9471, 9473, 9475, 9477, 9479, 9481, 9483, 9485, 9487, 9489, 9491, 9493, 9495, 9497, 9499, 9501, 9503, 9505, 9507, 9509,
      9511, 9513, 9514, 9516, 9518, 9520, 9522, 9524, 9526, 9528, 9530, 9532, 9534, 9535, 9537, 9539, 9541, 9543, 9545, 9547,
      9549, 9551, 9552, 9554, 9556, 9558, 9560, 9562, 9563, 9565, 9567, 9569, 9571, 9573, 9574, 9576, 9578, 9580, 9582, 9583,
      9585, 9587, 9589, 9591, 9592, 9594, 9596, 9598, 9599, 9601, 9603, 9605, 9606, 9608, 9610, 9612, 9613, 9615, 9617, 9619,
      9620, 9622, 9624, 9625, 9627, 9629, 9630, 9632, 9634, 9636, 9637, 9639, 9641, 9642, 9644, 9646, 9647, 9649, 9651, 9652,
      9654, 9655, 9657, 9659, 9660, 9662, 9664, 9665, 9667, 9668, 9670, 9672, 9673, 9675, 9676, 9678, 9680, 9681, 9683, 9684,
      9686, 9687, 9689, 9691, 9692, 9694, 9695, 9697, 9698, 9700, 9701, 9703, 9704, 9706, 9707, 9709, 9710, 9712, 9713, 9715,
      9716, 9718, 9719, 9721, 9722, 9724, 9725, 9727, 9728, 9730, 9731, 9732, 9734, 9735, 9737, 9738, 9740, 9741, 9742, 9744,
      9745, 9747, 9748, 9749, 9751, 9752, 9754, 9755, 9756, 9758, 9759, 9761, 9762, 9763, 9765, 9766, 9767, 9769, 9770, 9771,
      9773, 9774, 9775, 9777, 9778, 9779, 9781, 9782, 9783, 9785, 9786, 9787, 9788, 9790, 9791, 9792, 9794, 9795, 9796, 9797,
      9799, 9800, 9801, 9802, 9804, 9805, 9806, 9807, 9808, 9810, 9811, 9812, 9813, 9815, 9816, 9817, 9818, 9819, 9821, 9822,
      9823, 9824, 9825, 9826, 9828, 9829, 9830, 9831, 9832, 9833, 9834, 9836, 9837, 9838, 9839, 9840, 9841, 9842, 9843, 9845,
      9846, 9847, 9848, 9849, 9850, 9851, 9852, 9853, 9854, 9855, 9856, 9858, 9859, 9860, 9861, 9862, 9863, 9864, 9865, 9866,
      9867, 9868, 9869, 9870, 9871, 9872, 9873, 9874, 9875, 9876, 9877, 9878, 9879, 9880, 9881, 9882, 9883, 9884, 9885, 9886,
      9887, 9887, 9888, 9889, 9890, 9891, 9892, 9893, 9894, 9895, 9896, 9897, 9898, 9898, 9899, 9900, 9901, 9902, 9903, 9904,
      9905, 9905, 9906, 9907, 9908, 9909, 9910, 9911, 9911, 9912, 9913, 9914, 9915, 9916, 9916, 9917, 9918, 9919, 9920, 9920,
      9921, 9922, 9923, 9923, 9924, 9925, 9926, 9927, 9927, 9928, 9929, 9930, 9930, 9931, 9932, 9933, 9933, 9934, 9935, 9935,
      9936, 9937, 9938, 9938, 9939, 9940, 9940, 9941, 9942, 9942, 9943, 9944, 9944, 9945, 9946, 9946, 9947, 9948, 9948, 9949,
      9950, 9950, 9951, 9951, 9952, 9953, 9953, 9954, 9954, 9955, 9956, 9956, 9957, 9957, 9958, 9959, 9959, 9960, 9960, 9961,
      9961, 9962, 9962, 9963, 9964, 9964, 9965, 9965, 9966, 9966, 9967, 9967, 9968, 9968, 9969, 9969, 9970, 9970, 9971, 9971,
      9972, 9972, 9973, 9973, 9973, 9974, 9974, 9975, 9975, 9976, 9976, 9977, 9977, 9977, 9978, 9978, 9979, 9979, 9979, 9980,
      9980, 9981, 9981, 9981, 9982, 9982, 9983, 9983, 9983, 9984, 9984, 9984, 9985, 9985, 9985, 9986, 9986, 9986, 9987, 9987,
      9987, 9988, 9988, 9988, 9989, 9989, 9989, 9989, 9990, 9990, 9990, 9991, 9991, 9991, 9991, 9992, 9992, 9992, 9992, 9993,
      9993, 9993, 9993, 9994, 9994, 9994, 9994, 9994, 9995, 9995, 9995, 9995, 9995, 9996, 9996, 9996, 9996, 9996, 9997, 9997,
      9997, 9997, 9997, 9997, 9997, 9998, 9998, 9998, 9998, 9998, 9998, 9998, 9998, 9999, 9999, 9999, 9999, 9999, 9999, 9999,
      9999, 9999, 9999, 9999, 9999, 10000, 10000, 10000, 10000, 10000, 10000, 10000, 10000, 10000, 10000, 10000, 10000, 10000, 10000, 10000>>

\* gaussianNoise(rand, 0.02): two draws, Box-Muller, z * stddev.  With both
\* factors in units of 1e-4 and stddev = NoiseStd100/100 the noise in units
\* of 1e-6 is factor1 * factor2 * NoiseStd100 / 10000.
NoiseStd100 == 2

\* z * stddev for the generator states h1, h2 behind the draws u1, u2.
BoxMuller(h1, h2) ==
    [noise |-> RoundDiv(SqrtLogTable[(h1 % McModulus) + 1]
                            * CosTable[(h2 % McModulus) + 1] * NoiseStd100,
                        10000),
     h |-> h2]

\* const u2 = rand()
SecondDraw(h1) == BoxMuller(h1, LcgNext(h1))

\* const u1 = rand()
gaussianNoise(h) == SecondDraw(LcgNext(h))

\* ---- buildGroupProfiles ----
\* The asymmetry argument is [present, groups]: present is FALSE for null;
\* a group is [groupName, count, rate] with rate the value of its "..._rate"
\* metric in units of 1e-6, or NoRate when the group has no such metric.
NoAsymmetry == [present |-> FALSE, groups |-> <<>>]
NoRate == -1

\* The default model with the two groups' figures exchanged.
FallbackProfilesExchanged ==
    << [name |-> "Group A (Advantaged)", baselineOutcome |-> 550000,
        responsiveness |-> 350000, share |-> 1],
       [name |-> "Group B (Disadvantaged)", baselineOutcome |-> 850000,
        responsiveness |-> 100000, share |-> 1] >>

FallbackProfiles ==
    << [name |-> "Group A (Advantaged)", baselineOutcome |-> 850000,
        responsiveness |-> 100000, share |-> 1],
       [name |-> "Group B (Disadvantaged)", baselineOutcome |-> 550000,
        responsiveness |-> 350000, share |-> 1] >>

RECURSIVE SumCounts(_, _)
SumCounts(groups, i) ==
    IF i > Len(groups) THEN 0 ELSE groups[i].count + SumCounts(groups, i + 1)

\* Profiles built from whatever groups there are: the default model only
\* for a missing asymmetry.
buildGroupProfilesNoFallback(asymmetry) ==
    IF ~asymmetry.present
    THEN FallbackProfiles
    ELSE LET groups == asymmetry.groups
             n == Len(groups)
             totalCount == SumCounts(groups, 1)
             hasTargetRate == \E k \in 1 .. n : groups[k].rate # NoRate
             baseline(i) ==
                 IF hasTargetRate
                 THEN (IF groups[i].rate # NoRate THEN groups[i].rate ELSE 700000)
                 ELSE 850000 - RoundDiv((i - 1) * 250000, Max2(n - 1, 1))
         IN  [i \in 1 .. n |->
                 [name |-> groups[i].groupName,
                  baselineOutcome |-> Max2(300000, Min2(950000, baseline(i))),
                  responsiveness |-> Max2(50000, (2 * (OUnit - baseline(i))) \div 5),
                  share |-> IF totalCount > 0 THEN groups[i].count ELSE 1]]

buildGroupProfiles(asymmetry) ==
    IF ~asymmetry.present \/ Len(asymmetry.groups) < 2
    THEN FallbackProfiles
    ELSE LET groups == asymmetry.groups
             n == Len(groups)
             totalCount == SumCounts(groups, 1)
             hasTargetRate == \E k \in 1 .. n : groups[k].rate # NoRate
             baseline(i) ==
                 IF hasTargetRate
                 THEN (IF groups[i].rate # NoRate THEN groups[i].rate ELSE 700000)
                 ELSE 850000 - RoundDiv((i - 1) * 250000, Max2(n - 1, 1))
         IN  [i \in 1 .. n |->
                 [name |-> groups[i].groupName,
                  baselineOutcome |-> Max2(300000, Min2(950000, baseline(i))),
                  responsiveness |-> Max2(50000, (2 * (OUnit - baseline(i))) \div 5),
                  share |-> IF totalCount > 0 THEN groups[i].count ELSE 1]]

\* ---- simulateOutcome ----
RECURSIVE SeqMax(_, _)
SeqMax(s, i) == IF i = Len(s) THEN s[i] ELSE Max2(s[i], SeqMax(s, i + 1))

RECURSIVE SeqMin(_, _)
SeqMin(s, i) == IF i = Len(s) THEN s[i] ELSE Min2(s[i], SeqMin(s, i + 1))

RECURSIVE SumShares(_, _)
SumShares(profiles, i) ==
    IF i > Len(profiles) THEN 0 ELSE profiles[i].share + SumShares(profiles, i + 1)

RECURSIVE WeightedSum(_, _, _)
WeightedSum(outcomes, profiles, i) ==
    IF i > Len(outcomes) THEN 0
    ELSE outcomes[i] * profiles[i].share + WeightedSum(outcomes, profiles, i + 1)

\* The loop over the profiles: one gaussianNoise per group, in order.
\* Math.min(1, Math.max(0, p.baselineOutcome + alloc * p.responsiveness + noise))
GroupOutcome(p, alloc, noise) ==
    Min2(OUnit, Max2(0, p.baselineOutcome
                        + RoundDiv((alloc \div 1000) * p.responsiveness
                                       + RoundDiv((alloc % 1000) * p.responsiveness, 1000),
                                   1000)
                        + noise))

RECURSIVE GroupOutcomes(_, _, _, _, _)

\* The iteration for group i, given its noise g; alloc is allocations[i] || 0.
GroupStep(allocations, profiles, i, g, outs) ==
    GroupOutcomes(allocations, profiles, i + 1, g.h,
        Append(outs,
               GroupOutcome(profiles[i],
                            IF i <= Len(allocations) THEN allocations[i] ELSE 0,
                            g.noise)))

GroupOutcomes(allocations, profiles, i, h, outs) ==
    IF i > Len(profiles) THEN [outcomes |-> outs, h |-> h]
    ELSE GroupStep(allocations, profiles, i, gaussianNoise(h), outs)

\* overallOutcome is returned as the share-weighted sum (the numerator over
\* SumShares); fairnessGap = max - min of the group outcomes.
OutcomeSummary(g, profiles) ==
    [overallOutcome |-> WeightedSum(g.outcomes, profiles, 1),
     fairnessGap |-> SeqMax(g.outcomes, 1) - SeqMin(g.outcomes, 1),
     h |-> g.h]

simulateOutcome(allocations, profiles, h) ==
    OutcomeSummary(GroupOutcomes(allocations, profiles, 1, h, <<>>), profiles)

\* "for (let run = 0; run < numRuns; run++)": n successive simulateOutcome
\* calls on one generator, with the two running totals.  (The runs are split
\* in halves only to keep the evaluation shallow; the generator state is
\* threaded through them in order.)
\* totalOutcome += overallOutcome; totalGap += fairnessGap
AddRuns(a, b) ==
    [totalOutcome |-> a.totalOutcome + b.totalOutcome,
     totalGap |-> a.totalGap + b.totalGap,
     h |-> b.h]

OneRun(s) == [totalOutcome |-> s.overallOutcome, totalGap |-> s.fairnessGap, h |-> s.h]

RECURSIVE SimRuns(_, _, _, _)

\* The later runs, continuing on the generator the earlier runs a left.
LaterRuns(n, allocations, profiles, a) ==
    AddRuns(a, SimRuns(n, allocations, profiles, a.h))

SimRuns(n, allocations, profiles, h) ==
    IF n = 0 THEN [totalOutcome |-> 0, totalGap |-> 0, h |-> h]
    ELSE IF n = 1 THEN OneRun(simulateOutcome(allocations, profiles, h))
    ELSE LaterRuns(n - n \div 2, allocations, profiles,
                   SimRuns(n \div 2, allocations, profiles, h))

\* ---- generateAllocationGrid ----
GridSteps == 20

\* alloc.join('-') for the two-group grid point [i/20, 1 - i/20], entry i + 1:
\* JavaScript's shortest decimal form of the two doubles (1 - 0.55 is
\* 0.44999999999999996, 1 - 0.7 is 0.30000000000000004, ...).
GridKeys2 ==
    << <<48, 45, 49>>,
       <<48, 46, 48, 53, 45, 48, 46, 57, 53>>,
       <<48, 46, 49, 45, 48, 46, 57>>,
       <<48, 46, 49, 53, 45, 48, 46, 56, 53>>,
       <<48, 46, 50, 45, 48, 46, 56>>,
       <<48, 46, 50, 53, 45, 48, 46, 55, 53>>,
       <<48, 46, 51, 45, 48, 46, 55>>,
       <<48, 46, 51, 53, 45, 48, 46, 54, 53>>,
       <<48, 46, 52, 45, 48, 46, 54>>,
       <<48, 46, 52, 53, 45, 48, 46, 53, 53>>,
       <<48, 46, 53, 45, 48, 46, 53>>,
       <<48, 46, 53, 53, 45, 48, 46, 52, 52, 57, 57, 57, 57, 57, 57, 57, 57, 57, 57, 57, 57, 57, 57, 54>>,
       <<48, 46, 54, 45, 48, 46, 52>>,
       <<48, 46, 54, 53, 45, 48, 46, 51, 53>>,
       <<48, 46, 55, 45, 48, 46, 51, 48, 48, 48, 48, 48, 48, 48, 48, 48, 48, 48, 48, 48, 48, 48, 52>>,
       <<48, 46, 55, 53, 45, 48, 46, 50, 53>>,
       <<48, 46, 56, 45, 48, 46, 49, 57, 57, 57, 57, 57, 57, 57, 57, 57, 57, 57, 57, 57, 57, 57, 54>>,
       <<48, 46, 56, 53, 45, 48, 46, 49, 53, 48, 48, 48, 48, 48, 48, 48, 48, 48, 48, 48, 48, 48, 48, 50>>,
       <<48, 46, 57, 45, 48, 46, 48, 57, 57, 57, 57, 57, 57, 57, 57, 57, 57, 57, 57, 57, 57, 57, 56>>,
       <<48, 46, 57, 53, 45, 48, 46, 48, 53, 48, 48, 48, 48, 48, 48, 48, 48, 48, 48, 48, 48, 48, 48, 52, 52>>,
       <<49, 45, 48>> >>

\* The two-group branch: the split a = i/steps, 1 - a for i = 0 .. steps.
\* The simplex branch for a single group: steps * 5 points, each the one
\* exponential variate divided by itself, [1], serialized "1".
\* The simplex branch for three groups: the tabulated points.  (Asymmetries
\* of more than three groups are not among the inputs of this model.)
\* Fractions are in units of 1e-6 (GUnit).
\* The simplex branch for three groups, seededRandom('grid-3'): point i is
\* raw.map(v => v / total) of three draws -Math.log(Math.max(rand(), 0.0001)),
\* tabulated in generation order with the fractions in units of 1e-6 and
\* alloc.join('-') as character codes.
Grid3 ==
    << [allocations |-> <<670388, 215539, 114072>>,
        key |-> <<48, 46, 54, 55, 48, 51, 56, 56, 52, 55, 52, 53, 54, 50, 56, 48, 56, 54, 45, 48, 46, 50, 49, 53, 53, 51, 57, 48, 57, 49, 52, 49, 48, 54, 48, 53, 51, 50, 45, 48, 46, 49, 49, 52, 48, 55, 50, 52, 51, 52, 48, 50, 54, 53, 56, 54, 49, 54>>],
       [allocations |-> <<335130, 199441, 465430>>,
        key |-> <<48, 46, 51, 51, 53, 49, 50, 57, 53, 54, 54, 48, 52, 55, 53, 49, 51, 54, 53, 45, 48, 46, 49, 57, 57, 52, 52, 48, 57, 49, 49, 49, 55, 55, 54, 53, 56, 56, 54, 45, 48, 46, 52, 54, 53, 52, 50, 57, 53, 50, 50, 55, 55, 52, 56, 50, 55, 52, 54>>],
       [allocations |-> <<639516, 88146, 272338>>,
        key |-> <<48, 46, 54, 51, 57, 53, 49, 54, 48, 54, 48, 52, 51, 53, 55, 53, 48, 55, 45, 48, 46, 48, 56, 56, 49, 52, 53, 56, 56, 51, 49, 56, 48, 49, 49, 56, 54, 53, 45, 48, 46, 50, 55, 50, 51, 51, 56, 48, 53, 54, 51, 56, 52, 49, 51, 48, 55>>],
       [allocations |-> <<920595, 72684, 6721>>,
        key |-> <<48, 46, 57, 50, 48, 53, 57, 52, 55, 56, 48, 54, 49, 56, 55, 53, 55, 55, 45, 48, 46, 48, 55, 50, 54, 56, 52, 51, 54, 52, 56, 54, 52, 53, 49, 52, 57, 55, 45, 48, 46, 48, 48, 54, 55, 50, 48, 56, 53, 52, 53, 49, 54, 55, 50, 55, 53, 49, 49, 53>>],
       [allocations |-> <<68628, 356920, 574452>>,
        key |-> <<48, 46, 48, 54, 56, 54, 50, 55, 53, 57, 57, 55, 57, 57, 50, 55, 49, 53, 50, 45, 48, 46, 51, 53, 54, 57, 50, 48, 49, 49, 57, 57, 53, 52, 54, 51, 57, 55, 45, 48, 46, 53, 55, 52, 52, 53, 50, 50, 56, 48, 50, 52, 54, 48, 56, 56, 55>>],
       [allocations |-> <<361603, 342872, 295526>>,
        key |-> <<48, 46, 51, 54, 49, 54, 48, 50, 53, 56, 51, 53, 48, 51, 55, 55, 49, 49, 45, 48, 46, 51, 52, 50, 56, 55, 49, 54, 51, 55, 50, 53, 54, 50, 54, 50, 55, 52, 45, 48, 46, 50, 57, 53, 53, 50, 53, 55, 55, 57, 50, 51, 57, 57, 54, 54, 50>>],
       [allocations |-> <<44143, 429308, 526549>>,
        key |-> <<48, 46, 48, 52, 52, 49, 52, 50, 56, 53, 49, 56, 51, 48, 55, 56, 56, 52, 57, 45, 48, 46, 52, 50, 57, 51, 48, 56, 48, 51, 53, 56, 57, 51, 54, 54, 51, 53, 45, 48, 46, 53, 50, 54, 53, 52, 57, 49, 49, 50, 50, 55, 53, 53, 52, 56>>],
       [allocations |-> <<548788, 386724, 64488>>,
        key |-> <<48, 46, 53, 52, 56, 55, 56, 55, 56, 48, 52, 51, 53, 48, 56, 51, 52, 52, 45, 48, 46, 51, 56, 54, 55, 50, 51, 57, 51, 48, 55, 49, 55, 53, 49, 56, 48, 52, 45, 48, 46, 48, 54, 52, 52, 56, 56, 50, 54, 52, 57, 51, 49, 54, 52, 55, 53, 56>>],
       [allocations |-> <<180970, 357597, 461432>>,
        key |-> <<48, 46, 49, 56, 48, 57, 55, 48, 50, 54, 53, 55, 53, 54, 55, 55, 48, 50, 45, 48, 46, 51, 53, 55, 53, 57, 55, 51, 56, 48, 54, 53, 48, 55, 53, 52, 53, 45, 48, 46, 52, 54, 49, 52, 51, 50, 51, 53, 51, 53, 57, 50, 52, 55, 53, 50, 53>>],
       [allocations |-> <<660872, 144504, 194624>>,
        key |-> <<48, 46, 54, 54, 48, 56, 55, 50, 49, 52, 52, 50, 53, 53, 54, 54, 49, 50, 45, 48, 46, 49, 52, 52, 53, 48, 52, 49, 49, 56, 49, 53, 50, 54, 48, 51, 45, 48, 46, 49, 57, 52, 54, 50, 51, 55, 51, 55, 53, 57, 49, 55, 51, 53, 55, 54>>],
       [allocations |-> <<265296, 611977, 122726>>,
        key |-> <<48, 46, 50, 54, 53, 50, 57, 54, 52, 54, 50, 54, 48, 54, 56, 55, 53, 53, 45, 48, 46, 54, 49, 49, 57, 55, 55, 51, 55, 56, 55, 53, 49, 55, 57, 56, 55, 45, 48, 46, 49, 50, 50, 55, 50, 54, 49, 53, 56, 54, 52, 49, 51, 50, 53, 56, 52>>],
       [allocations |-> <<580979, 190261, 228760>>,
        key |-> <<48, 46, 53, 56, 48, 57, 55, 57, 49, 50, 49, 50, 56, 51, 55, 57, 49, 49, 45, 48, 46, 49, 57, 48, 50, 54, 48, 53, 56, 54, 54, 51, 54, 50, 55, 53, 52, 57, 45, 48, 46, 50, 50, 56, 55, 54, 48, 50, 57, 50, 48, 55, 57, 57, 51, 51, 52, 50>>],
       [allocations |-> <<559318, 173570, 267111>>,
        key |-> <<48, 46, 53, 53, 57, 51, 49, 56, 48, 52, 54, 55, 57, 52, 52, 52, 56, 50, 45, 48, 46, 49, 55, 51, 53, 55, 48, 52, 56, 52, 51, 54, 49, 49, 55, 56, 45, 48, 46, 50, 54, 55, 49, 49, 49, 52, 54, 56, 56, 52, 52, 51, 55, 51, 56, 55>>],
       [allocations |-> <<714500, 202356, 83144>>,
        key |-> <<48, 46, 55, 49, 52, 53, 48, 48, 50, 48, 48, 49, 57, 50, 56, 55, 49, 52, 45, 48, 46, 50, 48, 50, 51, 53, 53, 54, 51, 57, 50, 52, 50, 49, 57, 56, 54, 53, 45, 48, 46, 48, 56, 51, 49, 52, 52, 49, 54, 48, 53, 54, 52, 57, 51, 48, 48, 54>>],
       [allocations |-> <<278567, 437947, 283486>>,
        key |-> <<48, 46, 50, 55, 56, 53, 54, 54, 56, 53, 48, 48, 52, 50, 49, 51, 48, 57, 52, 45, 48, 46, 52, 51, 55, 57, 52, 55, 51, 51, 48, 49, 54, 53, 55, 53, 51, 49, 45, 48, 46, 50, 56, 51, 52, 56, 53, 56, 49, 57, 55, 57, 50, 49, 49, 53, 57, 54>>],
       [allocations |-> <<14523, 895913, 89564>>,
        key |-> <<48, 46, 48, 49, 52, 53, 50, 51, 51, 56, 57, 49, 53, 55, 48, 51, 51, 48, 54, 49, 45, 48, 46, 56, 57, 53, 57, 49, 50, 57, 57, 48, 55, 53, 56, 56, 53, 53, 56, 45, 48, 46, 48, 56, 57, 53, 54, 51, 54, 50, 48, 48, 56, 52, 49, 49, 49, 48, 56>>],
       [allocations |-> <<130808, 604228, 264963>>,
        key |-> <<48, 46, 49, 51, 48, 56, 48, 56, 52, 54, 54, 48, 57, 57, 49, 49, 53, 55, 45, 48, 46, 54, 48, 52, 50, 50, 56, 51, 51, 50, 57, 48, 55, 57, 55, 49, 55, 45, 48, 46, 50, 54, 52, 57, 54, 51, 50, 48, 48, 57, 57, 50, 57, 49, 50, 53>>],
       [allocations |-> <<98974, 815987, 85039>>,
        key |-> <<48, 46, 48, 57, 56, 57, 55, 51, 56, 51, 50, 50, 51, 49, 53, 54, 50, 54, 54, 45, 48, 46, 56, 49, 53, 57, 56, 55, 48, 52, 51, 57, 55, 49, 54, 54, 53, 49, 45, 48, 46, 48, 56, 53, 48, 51, 57, 49, 50, 51, 55, 57, 54, 55, 55, 50, 50, 52>>],
       [allocations |-> <<50426, 439195, 510378>>,
        key |-> <<48, 46, 48, 53, 48, 52, 50, 54, 52, 48, 48, 50, 48, 57, 48, 56, 56, 49, 45, 48, 46, 52, 51, 57, 49, 57, 53, 50, 55, 50, 50, 54, 50, 57, 56, 51, 45, 48, 46, 53, 49, 48, 51, 55, 56, 51, 50, 55, 53, 50, 55, 57, 50, 57>>],
       [allocations |-> <<8639, 337006, 654355>>,
        key |-> <<48, 46, 48, 48, 56, 54, 51, 57, 49, 57, 55, 56, 51, 50, 51, 49, 48, 49, 53, 45, 48, 46, 51, 51, 55, 48, 48, 53, 55, 53, 57, 50, 56, 54, 55, 48, 51, 52, 45, 48, 46, 54, 53, 52, 51, 53, 53, 48, 52, 50, 56, 56, 48, 57, 56, 54, 54>>],
       [allocations |-> <<560262, 388575, 51163>>,
        key |-> <<48, 46, 53, 54, 48, 50, 54, 49, 57, 54, 57, 52, 49, 48, 50, 48, 57, 55, 45, 48, 46, 51, 56, 56, 53, 55, 52, 57, 51, 53, 49, 51, 51, 48, 53, 51, 53, 45, 48, 46, 48, 53, 49, 49, 54, 51, 48, 57, 53, 52, 53, 54, 55, 51, 54, 56, 55>>],
       [allocations |-> <<801131, 100984, 97886>>,
        key |-> <<48, 46, 56, 48, 49, 49, 51, 48, 53, 55, 53, 55, 50, 54, 49, 52, 57, 45, 48, 46, 49, 48, 48, 57, 56, 51, 53, 54, 49, 52, 53, 56, 50, 54, 52, 54, 51, 45, 48, 46, 48, 57, 55, 56, 56, 53, 56, 54, 50, 56, 49, 53, 53, 56, 54, 52, 50>>],
       [allocations |-> <<418293, 30270, 551437>>,
        key |-> <<48, 46, 52, 49, 56, 50, 57, 51, 50, 49, 54, 56, 52, 54, 55, 57, 57, 45, 48, 46, 48, 51, 48, 50, 55, 48, 49, 53, 56, 53, 56, 54, 53, 52, 54, 49, 51, 45, 48, 46, 53, 53, 49, 52, 51, 54, 54, 50, 52, 53, 54, 54, 54, 53, 52, 57>>],
       [allocations |-> <<10171, 395855, 593974>>,
        key |-> <<48, 46, 48, 49, 48, 49, 55, 49, 52, 56, 57, 54, 49, 57, 56, 52, 56, 50, 53, 51, 45, 48, 46, 51, 57, 53, 56, 53, 52, 54, 53, 55, 53, 51, 52, 56, 50, 52, 57, 54, 45, 48, 46, 53, 57, 51, 57, 55, 51, 56, 53, 50, 56, 52, 53, 51, 50, 54, 55>>],
       [allocations |-> <<90712, 812429, 96859>>,
        key |-> <<48, 46, 48, 57, 48, 55, 49, 50, 49, 50, 48, 51, 49, 48, 48, 57, 53, 48, 51, 45, 48, 46, 56, 49, 50, 52, 50, 56, 55, 55, 56, 57, 55, 50, 55, 48, 55, 55, 45, 48, 46, 48, 57, 54, 56, 53, 57, 49, 48, 48, 55, 49, 55, 49, 57, 55, 51, 53>>],
       [allocations |-> <<505278, 326738, 167984>>,
        key |-> <<48, 46, 53, 48, 53, 50, 55, 55, 56, 54, 48, 56, 51, 56, 49, 52, 53, 51, 45, 48, 46, 51, 50, 54, 55, 51, 56, 50, 57, 51, 48, 51, 50, 57, 48, 51, 49, 52, 45, 48, 46, 49, 54, 55, 57, 56, 51, 56, 52, 54, 49, 50, 56, 57, 53, 49, 52, 51>>],
       [allocations |-> <<972223, 1874, 25903>>,
        key |-> <<48, 46, 57, 55, 50, 50, 50, 50, 57, 48, 57, 56, 51, 52, 56, 53, 55, 53, 45, 48, 46, 48, 48, 49, 56, 55, 52, 51, 53, 57, 55, 55, 55, 55, 53, 49, 57, 49, 57, 52, 45, 48, 46, 48, 50, 53, 57, 48, 50, 55, 51, 48, 51, 56, 55, 51, 57, 48, 52, 51, 56>>],
       [allocations |-> <<27082, 410632, 562287>>,
        key |-> <<48, 46, 48, 50, 55, 48, 56, 49, 54, 48, 51, 52, 57, 48, 49, 56, 55, 48, 52, 45, 48, 46, 52, 49, 48, 54, 51, 49, 53, 53, 53, 52, 51, 56, 53, 51, 49, 45, 48, 46, 53, 54, 50, 50, 56, 54, 56, 52, 49, 48, 55, 49, 50, 56, 49, 57>>],
       [allocations |-> <<394448, 101898, 503654>>,
        key |-> <<48, 46, 51, 57, 52, 52, 52, 56, 52, 48, 57, 52, 52, 53, 57, 54, 45, 48, 46, 49, 48, 49, 56, 57, 56, 48, 55, 49, 53, 48, 56, 54, 50, 49, 53, 53, 45, 48, 46, 53, 48, 51, 54, 53, 51, 53, 49, 57, 48, 52, 53, 52, 49, 56, 54>>],
       [allocations |-> <<13814, 180089, 806097>>,
        key |-> <<48, 46, 48, 49, 51, 56, 49, 51, 57, 54, 53, 57, 52, 52, 48, 51, 48, 49, 51, 54, 45, 48, 46, 49, 56, 48, 48, 56, 56, 53, 52, 51, 54, 49, 48, 56, 52, 53, 50, 53, 45, 48, 46, 56, 48, 54, 48, 57, 55, 52, 57, 48, 52, 52, 53, 49, 50, 52, 54>>],
       [allocations |-> <<11678, 166607, 821714>>,
        key |-> <<48, 46, 48, 49, 49, 54, 55, 56, 52, 52, 49, 50, 50, 55, 57, 51, 53, 51, 51, 45, 48, 46, 49, 54, 54, 54, 48, 55, 51, 53, 50, 50, 53, 56, 54, 54, 49, 56, 45, 48, 46, 56, 50, 49, 55, 49, 52, 50, 48, 54, 53, 49, 51, 52, 48, 50, 57>>],
       [allocations |-> <<224064, 390523, 385412>>,
        key |-> <<48, 46, 50, 50, 52, 48, 54, 52, 51, 57, 52, 51, 48, 50, 57, 57, 56, 55, 45, 48, 46, 51, 57, 48, 53, 50, 51, 51, 48, 55, 55, 54, 55, 56, 54, 53, 48, 52, 45, 48, 46, 51, 56, 53, 52, 49, 50, 50, 57, 55, 57, 50, 57, 49, 51, 54, 51>>],
       [allocations |-> <<188358, 318878, 492764>>,
        key |-> <<48, 46, 49, 56, 56, 51, 53, 55, 53, 57, 55, 48, 53, 51, 48, 56, 49, 57, 45, 48, 46, 51, 49, 56, 56, 55, 56, 51, 53, 57, 57, 55, 55, 50, 54, 55, 45, 48, 46, 52, 57, 50, 55, 54, 52, 48, 52, 50, 57, 54, 57, 54, 53, 49, 49>>],
       [allocations |-> <<479857, 310332, 209811>>,
        key |-> <<48, 46, 52, 55, 57, 56, 53, 54, 56, 53, 55, 54, 51, 49, 54, 52, 51, 55, 54, 45, 48, 46, 51, 49, 48, 51, 51, 50, 52, 55, 50, 50, 57, 55, 52, 53, 51, 54, 45, 48, 46, 50, 48, 57, 56, 49, 48, 54, 55, 48, 48, 55, 48, 57, 48, 50, 53, 55>>],
       [allocations |-> <<492046, 448679, 59275>>,
        key |-> <<48, 46, 52, 57, 50, 48, 52, 54, 48, 49, 56, 57, 53, 52, 51, 48, 56, 48, 53, 45, 48, 46, 52, 52, 56, 54, 55, 56, 57, 52, 52, 55, 49, 55, 49, 54, 51, 54, 45, 48, 46, 48, 53, 57, 50, 55, 53, 48, 51, 54, 51, 50, 56, 53, 50, 56, 51>>],
       [allocations |-> <<465332, 198752, 335916>>,
        key |-> <<48, 46, 52, 54, 53, 51, 51, 49, 56, 51, 48, 50, 57, 57, 57, 52, 56, 53, 55, 45, 48, 46, 49, 57, 56, 55, 53, 49, 55, 50, 51, 49, 55, 52, 50, 55, 55, 50, 45, 48, 46, 51, 51, 53, 57, 49, 54, 52, 52, 54, 53, 50, 53, 55, 55, 52, 49>>],
       [allocations |-> <<201343, 719518, 79139>>,
        key |-> <<48, 46, 50, 48, 49, 51, 52, 51, 49, 55, 49, 57, 54, 56, 55, 54, 56, 48, 56, 45, 48, 46, 55, 49, 57, 53, 49, 55, 56, 56, 57, 49, 57, 55, 50, 48, 50, 54, 45, 48, 46, 48, 55, 57, 49, 51, 56, 57, 51, 56, 56, 51, 52, 48, 50, 57, 52, 56>>],
       [allocations |-> <<341235, 556299, 102466>>,
        key |-> <<48, 46, 51, 52, 49, 50, 51, 52, 57, 52, 49, 51, 49, 54, 53, 50, 52, 52, 51, 45, 48, 46, 53, 53, 54, 50, 57, 57, 49, 49, 53, 57, 56, 49, 52, 49, 54, 55, 45, 48, 46, 49, 48, 50, 52, 54, 53, 57, 52, 50, 55, 48, 50, 48, 53, 56, 57, 52>>],
       [allocations |-> <<398852, 557997, 43151>>,
        key |-> <<48, 46, 51, 57, 56, 56, 53, 50, 49, 53, 51, 57, 56, 57, 56, 57, 50, 54, 45, 48, 46, 53, 53, 55, 57, 57, 54, 53, 48, 52, 54, 56, 53, 54, 52, 51, 56, 45, 48, 46, 48, 52, 51, 49, 53, 49, 51, 52, 49, 51, 50, 52, 52, 54, 51, 53, 56, 52>>],
       [allocations |-> <<3709, 416321, 579970>>,
        key |-> <<48, 46, 48, 48, 51, 55, 48, 56, 55, 57, 51, 54, 56, 54, 50, 48, 56, 56, 49, 57, 53, 45, 48, 46, 52, 49, 54, 51, 50, 48, 56, 55, 56, 54, 51, 55, 56, 49, 56, 50, 53, 45, 48, 46, 53, 55, 57, 57, 55, 48, 51, 50, 55, 54, 55, 53, 57, 55, 50, 57>>],
       [allocations |-> <<273724, 445244, 281032>>,
        key |-> <<48, 46, 50, 55, 51, 55, 50, 51, 57, 53, 50, 51, 52, 50, 52, 56, 50, 45, 48, 46, 52, 52, 53, 50, 52, 51, 57, 55, 54, 53, 52, 53, 55, 52, 50, 49, 45, 48, 46, 50, 56, 49, 48, 51, 50, 48, 55, 49, 49, 49, 49, 55, 55, 53, 57>>],
       [allocations |-> <<21270, 409078, 569652>>,
        key |-> <<48, 46, 48, 50, 49, 50, 55, 48, 51, 52, 54, 53, 56, 52, 56, 55, 53, 49, 56, 50, 45, 48, 46, 52, 48, 57, 48, 55, 55, 56, 54, 55, 56, 54, 49, 55, 54, 48, 50, 45, 48, 46, 53, 54, 57, 54, 53, 49, 55, 56, 53, 53, 53, 51, 51, 54, 52, 54>>],
       [allocations |-> <<391031, 335956, 273012>>,
        key |-> <<48, 46, 51, 57, 49, 48, 51, 49, 49, 55, 54, 56, 50, 51, 57, 49, 51, 48, 51, 45, 48, 46, 51, 51, 53, 57, 53, 54, 51, 52, 56, 57, 51, 57, 57, 49, 51, 53, 53, 45, 48, 46, 50, 55, 51, 48, 49, 50, 52, 55, 52, 50, 51, 54, 49, 55, 51, 52>>],
       [allocations |-> <<472115, 205130, 322755>>,
        key |-> <<48, 46, 52, 55, 50, 49, 49, 52, 56, 52, 55, 55, 48, 48, 51, 50, 56, 52, 45, 48, 46, 50, 48, 53, 49, 51, 48, 49, 48, 52, 55, 53, 56, 55, 57, 51, 50, 57, 45, 48, 46, 51, 50, 50, 55, 53, 53, 48, 52, 55, 53, 52, 48, 56, 55, 56, 51>>],
       [allocations |-> <<275460, 661130, 63409>>,
        key |-> <<48, 46, 50, 55, 53, 52, 54, 48, 51, 52, 56, 56, 52, 53, 49, 56, 50, 55, 45, 48, 46, 54, 54, 49, 49, 51, 48, 52, 55, 55, 52, 56, 57, 57, 51, 57, 51, 45, 48, 46, 48, 54, 51, 52, 48, 57, 49, 55, 51, 54, 54, 52, 56, 55, 56, 48, 56>>],
       [allocations |-> <<229975, 459225, 310801>>,
        key |-> <<48, 46, 50, 50, 57, 57, 55, 52, 56, 56, 55, 55, 57, 53, 56, 57, 50, 51, 45, 48, 46, 52, 53, 57, 50, 50, 52, 53, 51, 50, 55, 56, 52, 54, 56, 50, 57, 53, 45, 48, 46, 51, 49, 48, 56, 48, 48, 53, 55, 57, 52, 49, 57, 52, 50, 52, 56, 53>>],
       [allocations |-> <<671489, 284992, 43519>>,
        key |-> <<48, 46, 54, 55, 49, 52, 56, 56, 57, 51, 51, 51, 51, 48, 56, 51, 53, 52, 45, 48, 46, 50, 56, 52, 57, 57, 50, 49, 48, 56, 56, 56, 51, 57, 53, 52, 57, 45, 48, 46, 48, 52, 51, 53, 49, 56, 57, 53, 55, 55, 56, 53, 50, 48, 57, 56, 51>>],
       [allocations |-> <<457728, 84543, 457728>>,
        key |-> <<48, 46, 52, 53, 55, 55, 50, 56, 51, 48, 56, 57, 54, 49, 51, 52, 51, 53, 51, 45, 48, 46, 48, 56, 52, 53, 52, 51, 51, 56, 50, 48, 55, 55, 51, 49, 50, 56, 50, 45, 48, 46, 52, 53, 55, 55, 50, 56, 51, 48, 56, 57, 54, 49, 51, 52, 51, 53, 51>>],
       [allocations |-> <<56224, 88489, 855287>>,
        key |-> <<48, 46, 48, 53, 54, 50, 50, 51, 57, 55, 57, 56, 49, 53, 48, 54, 50, 51, 52, 45, 48, 46, 48, 56, 56, 52, 56, 56, 53, 50, 53, 57, 49, 51, 48, 57, 48, 53, 53, 45, 48, 46, 56, 53, 53, 50, 56, 55, 52, 57, 52, 50, 55, 49, 56, 52, 55, 49>>],
       [allocations |-> <<220134, 436942, 342924>>,
        key |-> <<48, 46, 50, 50, 48, 49, 51, 52, 48, 57, 52, 49, 54, 52, 56, 52, 57, 53, 45, 48, 46, 52, 51, 54, 57, 52, 50, 50, 51, 54, 49, 52, 48, 48, 53, 55, 49, 55, 45, 48, 46, 51, 52, 50, 57, 50, 51, 54, 54, 57, 54, 57, 53, 48, 57, 51, 51, 54>>],
       [allocations |-> <<397500, 232321, 370178>>,
        key |-> <<48, 46, 51, 57, 55, 53, 48, 48, 51, 54, 54, 48, 54, 57, 50, 53, 49, 55, 54, 45, 48, 46, 50, 51, 50, 51, 50, 49, 51, 51, 54, 51, 55, 54, 51, 54, 50, 56, 45, 48, 46, 51, 55, 48, 49, 55, 56, 50, 57, 55, 53, 53, 52, 51, 56, 53, 52, 55>>],
       [allocations |-> <<148471, 436973, 414556>>,
        key |-> <<48, 46, 49, 52, 56, 52, 55, 49, 50, 50, 48, 57, 52, 51, 49, 56, 56, 50, 52, 45, 48, 46, 52, 51, 54, 57, 55, 51, 50, 49, 52, 52, 53, 51, 49, 55, 52, 57, 52, 45, 48, 46, 52, 49, 52, 53, 53, 53, 53, 54, 52, 54, 48, 51, 54, 51, 54, 57>>],
       [allocations |-> <<289918, 253661, 456420>>,
        key |-> <<48, 46, 50, 56, 57, 57, 49, 56, 52, 56, 52, 50, 53, 54, 53, 52, 52, 48, 52, 45, 48, 46, 50, 53, 51, 54, 54, 49, 49, 48, 57, 55, 52, 55, 49, 53, 48, 55, 45, 48, 46, 52, 53, 54, 52, 50, 48, 52, 48, 53, 57, 57, 54, 51, 48, 53, 50, 51>>],
       [allocations |-> <<328594, 248713, 422693>>,
        key |-> <<48, 46, 51, 50, 56, 53, 57, 51, 54, 49, 49, 55, 56, 55, 48, 53, 48, 55, 55, 45, 48, 46, 50, 52, 56, 55, 49, 51, 49, 56, 50, 54, 51, 48, 50, 49, 56, 54, 54, 45, 48, 46, 52, 50, 50, 54, 57, 51, 50, 48, 53, 53, 56, 50, 55, 51, 48, 53>>],
       [allocations |-> <<651284, 238157, 110559>>,
        key |-> <<48, 46, 54, 53, 49, 50, 56, 52, 48, 56, 53, 57, 57, 57, 49, 56, 50, 52, 45, 48, 46, 50, 51, 56, 49, 53, 54, 54, 55, 50, 52, 48, 57, 55, 55, 56, 54, 45, 48, 46, 49, 49, 48, 53, 53, 57, 50, 52, 49, 53, 57, 49, 48, 51, 56, 56>>],
       [allocations |-> <<163236, 629537, 207228>>,
        key |-> <<48, 46, 49, 54, 51, 50, 51, 53, 54, 50, 48, 50, 52, 51, 49, 50, 49, 50, 52, 45, 48, 46, 54, 50, 57, 53, 51, 54, 56, 54, 50, 49, 56, 49, 48, 53, 53, 51, 45, 48, 46, 50, 48, 55, 50, 50, 55, 53, 49, 55, 53, 55, 53, 56, 50, 51, 53, 54>>],
       [allocations |-> <<413929, 478253, 107818>>,
        key |-> <<48, 46, 52, 49, 51, 57, 50, 57, 49, 54, 50, 50, 50, 49, 56, 52, 48, 53, 45, 48, 46, 52, 55, 56, 50, 53, 50, 53, 57, 56, 55, 56, 51, 50, 51, 50, 53, 45, 48, 46, 49, 48, 55, 56, 49, 56, 50, 51, 56, 57, 57, 52, 57, 50, 55, 49, 53>>],
       [allocations |-> <<14070, 870561, 115369>>,
        key |-> <<48, 46, 48, 49, 52, 48, 55, 48, 52, 48, 55, 53, 51, 57, 56, 51, 52, 53, 50, 49, 45, 48, 46, 56, 55, 48, 53, 54, 48, 56, 55, 55, 50, 52, 53, 49, 55, 49, 52, 45, 48, 46, 49, 49, 53, 51, 54, 56, 55, 49, 53, 50, 49, 52, 57, 57, 52, 48, 50>>],
       [allocations |-> <<551934, 327764, 120302>>,
        key |-> <<48, 46, 53, 53, 49, 57, 51, 52, 48, 50, 57, 48, 53, 54, 49, 54, 53, 55, 45, 48, 46, 51, 50, 55, 55, 54, 52, 52, 48, 48, 55, 56, 49, 52, 48, 54, 52, 45, 48, 46, 49, 50, 48, 51, 48, 49, 53, 55, 48, 49, 54, 50, 52, 50, 55, 57>>],
       [allocations |-> <<710760, 154385, 134855>>,
        key |-> <<48, 46, 55, 49, 48, 55, 53, 57, 57, 54, 54, 57, 49, 52, 49, 56, 52, 57, 45, 48, 46, 49, 53, 52, 51, 56, 52, 53, 54, 57, 54, 51, 48, 48, 55, 53, 51, 56, 45, 48, 46, 49, 51, 52, 56, 53, 53, 52, 54, 51, 52, 53, 53, 55, 51, 57, 56, 50>>],
       [allocations |-> <<392638, 209523, 397839>>,
        key |-> <<48, 46, 51, 57, 50, 54, 51, 55, 55, 56, 48, 50, 51, 48, 51, 57, 57, 49, 52, 45, 48, 46, 50, 48, 57, 53, 50, 51, 52, 51, 53, 51, 48, 53, 50, 57, 57, 52, 45, 48, 46, 51, 57, 55, 56, 51, 56, 55, 56, 52, 52, 54, 52, 51, 48, 49, 54>>],
       [allocations |-> <<701659, 76836, 221505>>,
        key |-> <<48, 46, 55, 48, 49, 54, 53, 56, 54, 49, 49, 55, 56, 54, 54, 53, 57, 55, 45, 48, 46, 48, 55, 54, 56, 51, 54, 49, 54, 51, 56, 49, 55, 53, 55, 49, 48, 56, 45, 48, 46, 50, 50, 49, 53, 48, 53, 50, 50, 52, 51, 57, 53, 55, 54, 57, 51>>],
       [allocations |-> <<259183, 198550, 542267>>,
        key |-> <<48, 46, 50, 53, 57, 49, 56, 50, 54, 51, 54, 48, 53, 49, 55, 57, 48, 54, 45, 48, 46, 49, 57, 56, 53, 53, 48, 50, 48, 54, 54, 50, 48, 57, 48, 50, 54, 49, 45, 48, 46, 53, 52, 50, 50, 54, 55, 49, 53, 55, 51, 50, 55, 51, 48, 54, 56>>],
       [allocations |-> <<296822, 196147, 507031>>,
        key |-> <<48, 46, 50, 57, 54, 56, 50, 49, 54, 54, 52, 56, 50, 49, 48, 52, 49, 57, 45, 48, 46, 49, 57, 54, 49, 52, 54, 57, 49, 55, 54, 54, 57, 51, 52, 49, 57, 53, 45, 48, 46, 53, 48, 55, 48, 51, 49, 52, 49, 55, 53, 48, 57, 54, 49, 54, 50>>],
       [allocations |-> <<287474, 409676, 302850>>,
        key |-> <<48, 46, 50, 56, 55, 52, 55, 51, 54, 54, 57, 55, 57, 50, 51, 55, 51, 56, 45, 48, 46, 52, 48, 57, 54, 55, 54, 48, 50, 48, 48, 51, 54, 57, 50, 55, 49, 45, 48, 46, 51, 48, 50, 56, 53, 48, 51, 49, 48, 49, 55, 48, 54, 57, 57, 49, 51>>],
       [allocations |-> <<15303, 901103, 83594>>,
        key |-> <<48, 46, 48, 49, 53, 51, 48, 51, 48, 53, 52, 48, 54, 49, 55, 54, 49, 56, 48, 55, 45, 48, 46, 57, 48, 49, 49, 48, 50, 57, 53, 50, 53, 56, 50, 54, 54, 57, 55, 45, 48, 46, 48, 56, 51, 53, 57, 51, 57, 57, 51, 51, 53, 53, 53, 54, 56, 53>>],
       [allocations |-> <<159406, 835685, 4909>>,
        key |-> <<48, 46, 49, 53, 57, 52, 48, 53, 55, 53, 55, 49, 54, 56, 48, 50, 50, 53, 50, 45, 48, 46, 56, 51, 53, 54, 56, 52, 56, 55, 57, 51, 48, 56, 51, 56, 56, 45, 48, 46, 48, 48, 52, 57, 48, 57, 51, 54, 51, 53, 50, 51, 53, 56, 57, 52, 50, 51, 53>>],
       [allocations |-> <<228883, 453042, 318075>>,
        key |-> <<48, 46, 50, 50, 56, 56, 56, 51, 48, 54, 52, 52, 50, 57, 54, 48, 53, 52, 54, 45, 48, 46, 52, 53, 51, 48, 52, 49, 55, 53, 50, 49, 54, 49, 56, 50, 52, 49, 45, 48, 46, 51, 49, 56, 48, 55, 53, 49, 56, 51, 52, 48, 56, 53, 55, 48, 52>>],
       [allocations |-> <<942977, 10378, 46645>>,
        key |-> <<48, 46, 57, 52, 50, 57, 55, 55, 51, 57, 54, 50, 52, 50, 53, 53, 50, 54, 45, 48, 46, 48, 49, 48, 51, 55, 55, 55, 52, 49, 50, 48, 51, 54, 51, 56, 51, 50, 54, 45, 48, 46, 48, 52, 54, 54, 52, 52, 56, 54, 50, 53, 53, 51, 56, 48, 57, 48, 50>>],
       [allocations |-> <<533455, 457626, 8919>>,
        key |-> <<48, 46, 53, 51, 51, 52, 53, 52, 54, 56, 54, 54, 51, 54, 53, 48, 51, 50, 45, 48, 46, 52, 53, 55, 54, 50, 54, 51, 57, 57, 51, 49, 50, 52, 50, 50, 53, 53, 45, 48, 46, 48, 48, 56, 57, 49, 56, 57, 49, 52, 48, 53, 49, 48, 55, 52, 52, 51, 53>>],
       [allocations |-> <<394691, 104933, 500375>>,
        key |-> <<48, 46, 51, 57, 52, 54, 57, 49, 48, 53, 54, 53, 52, 50, 57, 57, 56, 55, 52, 45, 48, 46, 49, 48, 52, 57, 51, 51, 52, 56, 54, 55, 54, 54, 55, 55, 55, 53, 57, 45, 48, 46, 53, 48, 48, 51, 55, 53, 52, 53, 54, 54, 57, 48, 50, 50, 51, 55>>],
       [allocations |-> <<242777, 288859, 468365>>,
        key |-> <<48, 46, 50, 52, 50, 55, 55, 54, 55, 52, 51, 55, 55, 56, 49, 50, 54, 56, 45, 48, 46, 50, 56, 56, 56, 53, 56, 55, 48, 54, 52, 57, 53, 52, 53, 53, 48, 51, 45, 48, 46, 52, 54, 56, 51, 54, 52, 53, 52, 57, 55, 50, 54, 52, 49, 56, 49, 55>>],
       [allocations |-> <<265941, 305037, 429022>>,
        key |-> <<48, 46, 50, 54, 53, 57, 52, 48, 53, 54, 51, 50, 50, 52, 50, 48, 56, 57, 45, 48, 46, 51, 48, 53, 48, 51, 55, 52, 56, 52, 57, 48, 50, 50, 52, 50, 54, 52, 45, 48, 46, 52, 50, 57, 48, 50, 49, 57, 53, 49, 56, 55, 51, 53, 52, 56, 53>>],
       [allocations |-> <<25145, 508101, 466754>>,
        key |-> <<48, 46, 48, 50, 53, 49, 52, 53, 50, 50, 50, 56, 50, 52, 55, 48, 57, 48, 49, 56, 45, 48, 46, 53, 48, 56, 49, 48, 49, 49, 55, 49, 54, 55, 55, 51, 56, 50, 52, 45, 48, 46, 52, 54, 54, 55, 53, 51, 54, 48, 53, 52, 57, 55, 57, 48, 56, 53, 54>>],
       [allocations |-> <<142003, 88600, 769398>>,
        key |-> <<48, 46, 49, 52, 50, 48, 48, 50, 55, 52, 54, 51, 55, 51, 48, 57, 54, 52, 54, 45, 48, 46, 48, 56, 56, 53, 57, 57, 53, 49, 49, 54, 56, 52, 51, 56, 51, 49, 56, 45, 48, 46, 55, 54, 57, 51, 57, 55, 55, 52, 49, 57, 52, 50, 53, 50, 48, 52>>],
       [allocations |-> <<197251, 470316, 332433>>,
        key |-> <<48, 46, 49, 57, 55, 50, 53, 49, 52, 50, 55, 56, 48, 53, 49, 54, 55, 55, 52, 45, 48, 46, 52, 55, 48, 51, 49, 53, 54, 56, 49, 50, 54, 54, 52, 51, 52, 50, 53, 45, 48, 46, 51, 51, 50, 52, 51, 50, 56, 57, 48, 57, 50, 56, 51, 57, 56>>],
       [allocations |-> <<300994, 82353, 616653>>,
        key |-> <<48, 46, 51, 48, 48, 57, 57, 52, 50, 55, 55, 50, 57, 48, 48, 57, 53, 53, 52, 45, 48, 46, 48, 56, 50, 51, 53, 50, 57, 53, 49, 55, 52, 50, 49, 55, 55, 55, 45, 48, 46, 54, 49, 54, 54, 53, 50, 55, 55, 48, 57, 54, 55, 55, 50, 54, 57>>],
       [allocations |-> <<329562, 234498, 435940>>,
        key |-> <<48, 46, 51, 50, 57, 53, 54, 49, 54, 57, 56, 51, 49, 54, 54, 55, 53, 55, 45, 48, 46, 50, 51, 52, 52, 57, 56, 51, 56, 48, 49, 52, 57, 54, 51, 57, 57, 55, 45, 48, 46, 52, 51, 53, 57, 51, 57, 57, 50, 49, 53, 51, 51, 54, 56, 52, 51>>],
       [allocations |-> <<308547, 350655, 340798>>,
        key |-> <<48, 46, 51, 48, 56, 53, 52, 54, 56, 52, 48, 56, 57, 52, 52, 55, 49, 57, 51, 45, 48, 46, 51, 53, 48, 54, 53, 53, 51, 53, 50, 50, 52, 51, 52, 54, 51, 48, 54, 45, 48, 46, 51, 52, 48, 55, 57, 55, 56, 48, 54, 56, 54, 50, 48, 54, 52, 57>>],
       [allocations |-> <<303447, 34631, 661921>>,
        key |-> <<48, 46, 51, 48, 51, 52, 52, 55, 51, 54, 52, 48, 55, 56, 49, 49, 53, 53, 55, 45, 48, 46, 48, 51, 52, 54, 51, 49, 50, 54, 54, 48, 57, 49, 48, 48, 48, 51, 57, 54, 45, 48, 46, 54, 54, 49, 57, 50, 49, 51, 54, 57, 56, 51, 48, 56, 56, 51, 57>>],
       [allocations |-> <<164553, 160526, 674921>>,
        key |-> <<48, 46, 49, 54, 52, 53, 53, 51, 48, 56, 56, 50, 50, 52, 55, 54, 49, 51, 45, 48, 46, 49, 54, 48, 53, 50, 53, 54, 57, 55, 49, 56, 55, 55, 57, 50, 53, 51, 45, 48, 46, 54, 55, 52, 57, 50, 49, 50, 49, 52, 53, 56, 55, 52, 52, 54, 50>>],
       [allocations |-> <<238161, 486539, 275300>>,
        key |-> <<48, 46, 50, 51, 56, 49, 54, 49, 50, 57, 53, 52, 54, 55, 49, 50, 48, 57, 50, 45, 48, 46, 52, 56, 54, 53, 51, 56, 53, 56, 50, 51, 53, 55, 49, 54, 51, 51, 45, 48, 46, 50, 55, 53, 51, 48, 48, 49, 50, 50, 49, 55, 53, 55, 49, 53, 55, 54>>],
       [allocations |-> <<398336, 555223, 46441>>,
        key |-> <<48, 46, 51, 57, 56, 51, 51, 54, 49, 54, 51, 49, 57, 55, 56, 50, 51, 48, 54, 45, 48, 46, 53, 53, 53, 50, 50, 51, 48, 50, 56, 50, 52, 54, 54, 51, 55, 53, 45, 48, 46, 48, 52, 54, 52, 52, 48, 56, 48, 56, 53, 53, 53, 53, 51, 57, 53, 57, 52>>],
       [allocations |-> <<291142, 518342, 190516>>,
        key |-> <<48, 46, 50, 57, 49, 49, 52, 49, 54, 56, 53, 55, 55, 57, 55, 49, 54, 45, 48, 46, 53, 49, 56, 51, 52, 50, 52, 52, 49, 57, 57, 53, 51, 49, 51, 52, 45, 48, 46, 49, 57, 48, 53, 49, 53, 56, 55, 50, 50, 50, 52, 57, 55, 48, 54>>],
       [allocations |-> <<177217, 436737, 386046>>,
        key |-> <<48, 46, 49, 55, 55, 50, 49, 54, 54, 52, 53, 52, 53, 53, 48, 51, 50, 54, 45, 48, 46, 52, 51, 54, 55, 51, 55, 49, 55, 57, 55, 57, 53, 50, 56, 48, 48, 52, 45, 48, 46, 51, 56, 54, 48, 52, 54, 49, 55, 52, 55, 52, 57, 54, 56, 55, 51, 51>>],
       [allocations |-> <<357849, 113702, 528449>>,
        key |-> <<48, 46, 51, 53, 55, 56, 52, 57, 52, 51, 54, 49, 53, 53, 50, 49, 56, 49, 45, 48, 46, 49, 49, 51, 55, 48, 49, 53, 51, 57, 50, 49, 54, 52, 50, 52, 57, 49, 45, 48, 46, 53, 50, 56, 52, 52, 57, 48, 50, 52, 54, 50, 56, 51, 53, 55>>],
       [allocations |-> <<121609, 708296, 170095>>,
        key |-> <<48, 46, 49, 50, 49, 54, 48, 57, 48, 48, 50, 57, 54, 51, 48, 52, 54, 54, 50, 45, 48, 46, 55, 48, 56, 50, 57, 54, 50, 56, 49, 52, 54, 51, 57, 48, 48, 55, 45, 48, 46, 49, 55, 48, 48, 57, 52, 55, 49, 53, 53, 55, 51, 48, 53, 50, 53, 57>>],
       [allocations |-> <<3559, 744914, 251528>>,
        key |-> <<48, 46, 48, 48, 51, 53, 53, 56, 54, 48, 52, 55, 56, 57, 55, 54, 56, 54, 53, 53, 52, 45, 48, 46, 55, 52, 52, 57, 49, 51, 56, 54, 55, 52, 57, 57, 51, 54, 50, 50, 45, 48, 46, 50, 53, 49, 53, 50, 55, 53, 50, 55, 55, 49, 48, 56, 54, 57, 49, 55>>],
       [allocations |-> <<397945, 438139, 163916>>,
        key |-> <<48, 46, 51, 57, 55, 57, 52, 52, 56, 52, 56, 57, 49, 52, 49, 57, 51, 54, 45, 48, 46, 52, 51, 56, 49, 51, 57, 52, 51, 52, 55, 56, 53, 51, 48, 50, 55, 54, 45, 48, 46, 49, 54, 51, 57, 49, 53, 55, 49, 54, 51, 48, 48, 53, 48, 51, 54, 52>>],
       [allocations |-> <<635320, 192884, 171795>>,
        key |-> <<48, 46, 54, 51, 53, 51, 50, 48, 48, 55, 54, 51, 54, 57, 50, 55, 52, 51, 45, 48, 46, 49, 57, 50, 56, 56, 52, 52, 51, 55, 55, 53, 55, 52, 57, 56, 53, 56, 45, 48, 46, 49, 55, 49, 55, 57, 53, 52, 56, 53, 56, 55, 51, 50, 50, 55, 49, 51>>],
       [allocations |-> <<100044, 31948, 868009>>,
        key |-> <<48, 46, 49, 48, 48, 48, 52, 51, 53, 52, 50, 53, 52, 54, 50, 53, 52, 51, 55, 45, 48, 46, 48, 51, 49, 57, 52, 55, 54, 53, 56, 56, 55, 51, 50, 48, 57, 56, 55, 45, 48, 46, 56, 54, 56, 48, 48, 56, 55, 57, 56, 53, 56, 48, 53, 51, 53, 56>>],
       [allocations |-> <<391106, 301799, 307095>>,
        key |-> <<48, 46, 51, 57, 49, 49, 48, 53, 55, 49, 52, 49, 56, 55, 52, 57, 56, 55, 45, 48, 46, 51, 48, 49, 55, 57, 56, 57, 49, 51, 53, 48, 50, 48, 55, 54, 52, 52, 45, 48, 46, 51, 48, 55, 48, 57, 53, 51, 55, 50, 51, 49, 48, 52, 50, 52, 57>>],
       [allocations |-> <<121802, 376370, 501827>>,
        key |-> <<48, 46, 49, 50, 49, 56, 48, 50, 50, 49, 55, 51, 52, 48, 56, 48, 51, 52, 50, 45, 48, 46, 51, 55, 54, 51, 55, 48, 52, 55, 56, 50, 56, 50, 53, 49, 50, 56, 45, 48, 46, 53, 48, 49, 56, 50, 55, 51, 48, 52, 51, 55, 54, 54, 56, 51, 55>>],
       [allocations |-> <<563075, 145531, 291394>>,
        key |-> <<48, 46, 53, 54, 51, 48, 55, 53, 48, 55, 49, 49, 56, 49, 50, 53, 49, 54, 45, 48, 46, 49, 52, 53, 53, 51, 48, 56, 56, 52, 48, 51, 55, 56, 52, 51, 50, 56, 45, 48, 46, 50, 57, 49, 51, 57, 52, 48, 52, 52, 55, 56, 48, 57, 48, 53, 49, 52>>],
       [allocations |-> <<180064, 399168, 420768>>,
        key |-> <<48, 46, 49, 56, 48, 48, 54, 51, 57, 51, 52, 57, 56, 55, 48, 56, 55, 49, 52, 45, 48, 46, 51, 57, 57, 49, 54, 56, 51, 51, 51, 48, 49, 48, 57, 56, 48, 49, 45, 48, 46, 52, 50, 48, 55, 54, 55, 55, 51, 50, 48, 48, 49, 57, 51, 50, 56>>],
       [allocations |-> <<229551, 681596, 88853>>,
        key |-> <<48, 46, 50, 50, 57, 53, 53, 49, 52, 51, 53, 51, 48, 54, 54, 50, 49, 50, 51, 45, 48, 46, 54, 56, 49, 53, 57, 53, 53, 52, 50, 55, 50, 51, 48, 50, 49, 54, 45, 48, 46, 48, 56, 56, 56, 53, 51, 48, 50, 49, 57, 55, 48, 51, 53, 55, 49, 53>>],
       [allocations |-> <<286573, 177536, 535890>>,
        key |-> <<48, 46, 50, 56, 54, 53, 55, 51, 52, 57, 50, 52, 57, 56, 53, 55, 57, 53, 45, 48, 46, 49, 55, 55, 53, 51, 54, 48, 55, 52, 48, 51, 55, 52, 56, 52, 52, 45, 48, 46, 53, 51, 53, 56, 57, 48, 52, 51, 51, 52, 54, 51, 57, 51, 54, 49>>],
       [allocations |-> <<247644, 511897, 240459>>,
        key |-> <<48, 46, 50, 52, 55, 54, 52, 52, 51, 50, 48, 57, 50, 50, 48, 53, 56, 57, 45, 48, 46, 53, 49, 49, 56, 57, 55, 49, 50, 54, 51, 55, 48, 57, 54, 50, 54, 45, 48, 46, 50, 52, 48, 52, 53, 56, 53, 53, 50, 55, 48, 54, 57, 55, 56, 52, 55>>],
       [allocations |-> <<27005, 916212, 56783>>,
        key |-> <<48, 46, 48, 50, 55, 48, 48, 53, 51, 53, 53, 49, 57, 49, 51, 54, 52, 56, 50, 45, 48, 46, 57, 49, 54, 50, 49, 49, 54, 53, 50, 54, 51, 51, 53, 50, 55, 52, 45, 48, 46, 48, 53, 54, 55, 56, 50, 57, 57, 50, 49, 55, 53, 49, 48, 55, 56, 56>>],
       [allocations |-> <<194451, 774426, 31123>>,
        key |-> <<48, 46, 49, 57, 52, 52, 53, 49, 48, 54, 53, 53, 57, 50, 50, 55, 54, 51, 45, 48, 46, 55, 55, 52, 52, 50, 53, 53, 50, 50, 53, 54, 56, 52, 57, 48, 49, 45, 48, 46, 48, 51, 49, 49, 50, 51, 52, 49, 49, 56, 51, 57, 50, 51, 51, 54, 54, 50>>] >>

generateAllocationGrid(numGroups, steps) ==
    IF numGroups = 2
    THEN [i \in 1 .. steps + 1 |->
             [allocations |-> << ((i - 1) * GUnit) \div steps,
                                 GUnit - ((i - 1) * GUnit) \div steps >>,
              key |-> GridKeys2[i]]]
    ELSE IF numGroups = 1
    THEN [i \in 1 .. steps * 5 |-> [allocations |-> <<GUnit>>, key |-> <<49>>]]
    ELSE IF numGroups = 3
    THEN [i \in 1 .. steps * 5 |-> Grid3[i]]
    ELSE <<>>

\* ---- runMonteCarloAllocation ----
NoRand == -1
NoInput == [weights |-> NoWeights, asymmetry |-> NoAsymmetry, numRuns |-> 0, seed |-> <<>>]
NoResult == [totalRuns |-> -1]

\* A generator that keeps running from the state an earlier one was left in.
candidateRandShared(seed, key) ==
    IF mcRand = NoRand THEN seededRandom(seed \o key) ELSE mcRand

\* const rand = seededRandom(seed + alloc.join('-'))
candidateRand(seed, key) == seededRandom(seed \o key)

\* avgOutcome = totalOutcome / numRuns and avgGap = totalGap / numRuns of
\* the totals sim (the shares of SumShares weigh totalOutcome).
\* With numRuns = 0 both are 0 / 0, which is NaN.
NaN == -2000000000

AvgOutcome(sim, numRuns, shares) ==
    IF numRuns = 0 THEN NaN ELSE RoundDiv(sim.totalOutcome, numRuns * shares)
AvgGap(sim, numRuns) ==
    IF numRuns = 0 THEN NaN ELSE RoundDiv(sim.totalGap, numRuns)

\* An entry scored on its average outcome alone.
CandidateEntryAccuracyOnly(cand, weights, avgOutcome, avgGap) ==
    [allocations |-> cand.allocations,
     avgOutcome |-> avgOutcome,
     avgFairnessGap |-> avgGap,
     score |-> IF avgOutcome = NaN THEN NaN ELSE weights.accuracy * avgOutcome]

\* results.push({ allocations, avgOutcome, avgFairnessGap, score }) with
\* score = accuracyWeight * avgOutcome + fairnessWeight * (1 - avgGap).
CandidateEntry(cand, weights, avgOutcome, avgGap) ==
    [allocations |-> cand.allocations,
     avgOutcome |-> avgOutcome,
     avgFairnessGap |-> avgGap,
     score |-> IF avgOutcome = NaN \/ avgGap = NaN THEN NaN
               ELSE weights.accuracy * avgOutcome + weights.fairness * (OUnit - avgGap)]

EntryOfTotals(cand, weights, numRuns, shares, sim) ==
    [entry |-> CandidateEntry(cand, weights, AvgOutcome(sim, numRuns, shares),
                              AvgGap(sim, numRuns)),
     h |-> sim.h]

\* The body of "for (const alloc of allocationGrid)": the entry pushed to
\* results, and the state the candidate's generator is left in.
EvaluateCandidate(cand, profiles, weights, numRuns, seed) ==
    EntryOfTotals(cand, weights, numRuns, SumShares(profiles, 1),
        SimRuns(numRuns, cand.allocations, profiles, candidateRand(seed, cand.key)))

\* Array.prototype.sort with the comparator (a, b) => b[f] - a[f]: descending
\* in field f and stable.  (A NaN difference counts as 0: entries whose
\* field is NaN, which then all are, keep their order.)
\* An insertion that puts r before the entries equal to it in field f.
RECURSIVE InsertDescBeforeEqual(_, _, _, _)
InsertDescBeforeEqual(sorted, r, f, i) ==
    IF i > Len(sorted) THEN Append(sorted, r)
    ELSE IF sorted[i][f] <= r[f]
    THEN SubSeq(sorted, 1, i - 1) \o <<r>> \o SubSeq(sorted, i, Len(sorted))
    ELSE InsertDescBeforeEqual(sorted, r, f, i + 1)

RECURSIVE InsertDesc(_, _, _, _)
InsertDesc(sorted, r, f, i) ==
    IF i > Len(sorted) THEN Append(sorted, r)
    ELSE IF sorted[i][f] < r[f]
    THEN SubSeq(sorted, 1, i - 1) \o <<r>> \o SubSeq(sorted, i, Len(sorted))
    ELSE InsertDesc(sorted, r, f, i + 1)

RECURSIVE SortDesc(_, _, _, _)
SortDesc(s, f, i, acc) ==
    IF i > Len(s) THEN acc ELSE SortDesc(s, f, i + 1, InsertDesc(acc, s[i], f, 1))

\* The Pareto walk over the outcome-sorted results: a point is emitted when
\* its gap is below bestGapSoFar (Infinity is any value above every gap).
\* Emitted values: outcome and fairnessGap toFixed(4), allocation toFixed(3).
GapInfinity == 2 * OUnit

RECURSIVE ParetoWalk(_, _, _, _)
ParetoWalk(sorted, i, bestGapSoFar, frontier) ==
    IF i > Len(sorted) THEN frontier
    ELSE LET r == sorted[i]
         IN  IF r.avgFairnessGap # NaN /\ r.avgFairnessGap < bestGapSoFar
             THEN ParetoWalk(sorted, i + 1, r.avgFairnessGap,
                      Append(frontier,
                             [outcome |-> RoundDiv(r.avgOutcome, 100),
                              fairnessGap |-> RoundDiv(r.avgFairnessGap, 100),
                              allocation |-> AllocFixed3(r.allocations[1])]))
             ELSE ParetoWalk(sorted, i + 1, bestGapSoFar, frontier)

\* results.slice(0, 5).map(r => r.score)
TopScores(results) == [i \in 1 .. Min2(5, Len(results)) |-> results[i].score]

\* The sum over the scores v of (v - center)^2, with the differences taken in
\* units of 1e-5.  A single difference of 0.07072 or more already exceeds
\* every threshold the sum is compared with, and is reported as SqCap.
SqCap == 50000000

RECURSIVE SumSqDev(_, _, _)
SumSqDev(scores, center, i) ==
    IF i > Len(scores) THEN 0
    ELSE LET d == RoundDiv(scores[i] - center, 1000)
             rest == SumSqDev(scores, center, i + 1)
         IN  IF d > 7071 \/ d < -7071 \/ rest >= SqCap THEN SqCap
             ELSE Min2(SqCap, d * d + rest)

\* scoreVariance < 0.001, scoreVariance being the mean squared deviation of
\* the top scores from topScores[0] (0 for a single score):
\* sum/len < 0.001  <=>  sum (in 1e-10) < len * 10^7.
ScoreVarianceBelowThreshold(topScores) ==
    IF Len(topScores) > 1
    THEN topScores[1] # NaN /\ SumSqDev(topScores, topScores[1], 1) < Len(topScores) * 10000000
    ELSE TRUE

Confidence(numRuns, topScores) ==
    IF numRuns >= 500 /\ ScoreVarianceBelowThreshold(topScores) THEN "high"
    ELSE IF numRuns >= 100 THEN "moderate"
    ELSE "low"

\* Array(numGroups).fill(1 / numGroups), in thousandths.
EqualAlloc(numGroups) == [i \in 1 .. numGroups |-> GUnit \div numGroups]

\* Math.max(0, (equalOutcome - optimal.avgOutcome) / equalOutcome * 100),
\* toFixed(1), in tenths.
\* Math.max(0, NaN) is NaN; a negative quotient by 0 is -Infinity, and 0 / 0
\* is NaN.
EfficiencySacrifice(equalOutcome, optimal) ==
    IF equalOutcome = NaN \/ optimal.avgOutcome = NaN THEN NaN
    ELSE IF equalOutcome = 0 THEN (IF optimal.avgOutcome = 0 THEN NaN ELSE 0)
    ELSE Max2(0, RoundDiv((equalOutcome - optimal.avgOutcome) * 1000, equalOutcome))

\* equalGap > 0 ? Math.max(0, (equalGap - optimal.avgFairnessGap) / equalGap
\* * 100) : 0, toFixed(1), in tenths.
FairnessImprovement(equalGap, optimal) ==
    IF equalGap # NaN /\ equalGap > 0
    THEN Max2(0, RoundDiv((equalGap - optimal.avgFairnessGap) * 1000, equalGap))
    ELSE 0

\* profiles.map((p, i) => ({ groupName: p.name, allocation: ... }))
OptimalAllocation(profiles, optimal) ==
    [i \in 1 .. Len(profiles) |->
        [groupName |-> profiles[i].name,
         allocation |-> AllocFixed3(optimal.allocations[i])]]

\* The returned record, from the score-sorted results and the two
\* equal-split averages.  expectedOutcome, fairnessImprovement and
\* efficiencySacrifice are toFixed(1) values, held in tenths.
ResultRecord(sortedByScore, profiles, numRuns, equalOutcome, equalGap) ==
    [totalRuns |-> numRuns * Len(sortedByScore),
     optimalAllocation |-> OptimalAllocation(profiles, sortedByScore[1]),
     expectedOutcome |-> IF sortedByScore[1].avgOutcome = NaN THEN NaN
                         ELSE RoundDiv(sortedByScore[1].avgOutcome, 1000),
     fairnessImprovement |-> FairnessImprovement(equalGap, sortedByScore[1]),
     efficiencySacrifice |-> EfficiencySacrifice(equalOutcome, sortedByScore[1]),
     confidence |-> Confidence(numRuns, TopScores(sortedByScore)),
     paretoFrontier |->
         ParetoWalk(SortDesc(sortedByScore, "avgOutcome", 1, <<>>), 1, GapInfinity, <<>>)]

FinishSorted(sortedByScore, profiles, numRuns, equalSim, equalGapSim) ==
    [results |-> sortedByScore,
     h |-> equalGapSim.h,
     result |-> ResultRecord(sortedByScore, profiles, numRuns,
                             AvgOutcome(equalSim, numRuns, SumShares(profiles, 1)),
                             AvgGap(equalGapSim, numRuns))]

\* Everything after the candidate loop: the sort by score, the two
\* equal-split baselines (generators seed + 'equal' and seed + 'equal-gap'),
\* the frontier, the confidence and the returned record.
FinishResult(results, profiles, numRuns, seed) ==
    FinishSorted(SortDesc(results, "score", 1, <<>>), profiles, numRuns,
        SimRuns(numRuns, EqualAlloc(Len(profiles)), profiles,
                seededRandom(seed \o SuffixEqual)),
        SimRuns(numRuns, EqualAlloc(Len(profiles)), profiles,
                seededRandom(seed \o SuffixEqualGap)))

NoFirst == [input |-> NoInput, result |-> NoResult]

InitMC ==
    /\ IdleMore
    /\ mcPc = "idle"
    /\ mcInput = NoInput
    /\ mcProfiles = <<>>
    /\ mcIdx = 0
    /\ mcResults = <<>>
    /\ mcRand = NoRand
    /\ mcResult = NoResult
    /\ mcFirst = NoFirst
    /\ mcRepeat = FALSE
    /\ IdleInfer
    /\ IdleRng
    /\ IdleApp

\* A call of runMonteCarloAllocation(weights, asymmetry, numRuns, seed) up to
\* the candidate loop: the profiles are built and results starts empty.
McStart(input) ==
    /\ mcPc \in {"idle", "done"}
    /\ mcInput' = input
    /\ mcProfiles' = buildGroupProfiles(input.asymmetry)
    /\ mcResults' = <<>>
    /\ mcIdx' = 1
    /\ mcResult' = NoResult
    /\ mcPc' = "loop"
    /\ mcRepeat' = (mcFirst # NoFirst /\ mcFirst.input = input)
    /\ UNCHANGED <<mcRand, mcFirst, infVars, rngVars, appVars, moreVars>>

\* One iteration of the candidate loop.
McPush(e) ==
    /\ mcResults' = Append(mcResults, e.entry)
    /\ mcRand' = e.h

McEvalCandidate ==
    /\ mcPc = "loop"
    /\ mcIdx <= Len(generateAllocationGrid(Len(mcProfiles), GridSteps))
    /\ McPush(EvaluateCandidate(
                  generateAllocationGrid(Len(mcProfiles), GridSteps)[mcIdx],
                  mcProfiles, mcInput.weights, mcInput.numRuns, mcInput.seed))
    /\ mcIdx' = mcIdx + 1
    /\ UNCHANGED <<mcPc, mcInput, mcProfiles, mcResult, mcFirst, mcRepeat,
                   infVars, rngVars, appVars, moreVars>>

\* The rest of the call, through the return.  mcFirst keeps the input and
\* the result of the first call that completed.
McReturn(f) ==
    /\ mcResults' = f.results
    /\ mcRand' = f.h
    /\ mcResult' = f.result
    /\ mcFirst' = IF mcFirst = NoFirst
                  THEN [input |-> mcInput, result |-> f.result]
                  ELSE mcFirst

McFinish ==
    /\ mcPc = "loop"
    /\ mcIdx > Len(generateAllocationGrid(Len(mcProfiles), GridSteps))
    /\ McReturn(FinishResult(mcResults, mcProfiles, mcInput.numRuns, mcInput.seed))
    /\ mcPc' = "done"
    /\ UNCHANGED <<mcInput, mcProfiles, mcIdx, mcRepeat, infVars, rngVars, appVars, moreVars>>

\* ---- the two documented scenarios ----
\* runMonteCarloAllocation(communityWeights, primaryAsymmetry, 200, 'community')
\* with no asymmetry, for the accuracy-heavy and the fairness-heavy weights.
ScenarioA ==
    [weights |-> [accuracy |-> 80, fairness |-> 10, robustness |-> 10],
     asymmetry |-> NoAsymmetry, numRuns |-> 200, seed |-> SeedCommunity]
ScenarioB ==
    [weights |-> [accuracy |-> 25, fairness |-> 55, robustness |-> 20],
     asymmetry |-> NoAsymmetry, numRuns |-> 200, seed |-> SeedCommunity]

\* Two further full-size calls with a two-group asymmetry: target rates
\* 0.95 / 0.30 under fairness-heavy weights and 500 runs, and target rates
\* 0.55 / 0.65 under the baseline weights.
SteepGroups ==
    [present |-> TRUE, groups |->
    << [groupName |-> "near", count |-> 1, rate |-> 950000],
       [groupName |-> "far", count |-> 1, rate |-> 300000] >>]
CloseGroups ==
    [present |-> TRUE, groups |->
    << [groupName |-> "near", count |-> 1, rate |-> 550000],
       [groupName |-> "far", count |-> 1, rate |-> 650000] >>]

ScenarioSteep ==
    [weights |-> [accuracy |-> 5, fairness |-> 95, robustness |-> 0],
     asymmetry |-> SteepGroups, numRuns |-> 500, seed |-> SeedCommunity]
ScenarioClose ==
    [weights |-> [accuracy |-> 40, fairness |-> 40, robustness |-> 20],
     asymmetry |-> CloseGroups, numRuns |-> 200, seed |-> SeedCommunity]

ScenarioInputs == {ScenarioA, ScenarioB, ScenarioSteep, ScenarioClose}

McScenarioCall == \E input \in ScenarioInputs : McStart(input)

NextScenario == McScenarioCall \/ McEvalCandidate \/ McFinish

SpecScenario == InitMC /\ [][NextScenario]_vars

\* ---- calls over a range of arguments, with few runs per point ----
McWeights ==
    { [accuracy |-> 40, fairness |-> 40, robustness |-> 20],
      [accuracy |-> 0, fairness |-> 0, robustness |-> 100],
      [accuracy |-> 50, fairness |-> 60, robustness |-> 10],
      [accuracy |-> -10, fairness |-> 70, robustness |-> 40] }

OneGroup ==
    [present |-> TRUE, groups |->
    << [groupName |-> "all", count |-> 10, rate |-> 700000] >>]
TwoRated ==
    [present |-> TRUE, groups |->
    << [groupName |-> "near", count |-> 1, rate |-> 350000],
       [groupName |-> "far", count |-> 1, rate |-> 600000] >>]
TwoUnrated ==
    [present |-> TRUE, groups |->
    << [groupName |-> "near", count |-> 3, rate |-> NoRate],
       [groupName |-> "far", count |-> 1, rate |-> NoRate] >>]

McAsymmetries == {NoAsymmetry, OneGroup, TwoRated, TwoUnrated}
McNumRuns == {0, 1, 2}
McSeeds == {SeedCommunity, SeedX}

McInputs ==
    [weights : McWeights, asymmetry : McAsymmetries, numRuns : McNumRuns,
     seed : McSeeds]

McCall == \E input \in McInputs : McStart(input)

NextMC == McCall \/ McEvalCandidate \/ McFinish

SpecMC == InitMC /\ [][NextMC]_vars

\* ---- properties of runMonteCarloAllocation ----
Finished == mcPc = "done"

GroupBFraction(result) == result.optimalAllocation[2].allocation

\* C7: with the accuracy-heavy weights 80/10/10, the default profiles, 200
\* runs and seed "community", the optimal allocation gives group B a larger
\* fraction than group A, and efficiencySacrifice is 0.
C7_ScenarioAFavoursGroupB ==
    (Finished /\ mcInput = ScenarioA) =>
        /\ mcResult.optimalAllocation[2].allocation
               > mcResult.optimalAllocation[1].allocation
        /\ mcResult.efficiencySacrifice = 0

C7_Witness ==
    /\ Finished
    /\ mcInput = ScenarioA
    /\ mcResult.optimalAllocation[2].groupName = "Group B (Disadvantaged)"
    /\ mcResult.optimalAllocation[2].allocation = AUnit

\* A finished fairness-heavy call whose first call was the accuracy-heavy one.
ScenarioBAfterA == Finished /\ mcInput = ScenarioB /\ mcFirst.input = ScenarioA

\* C6 (as claimed): the fairness-heavy weights 25/55/20 give group B a
\* strictly larger fraction than the accuracy-heavy weights 80/10/10 do
\* under the same profiles, runs and seed, and a strictly greater
\* fairnessImprovement.
C6_ScenarioBShiftsTowardB ==
    ScenarioBAfterA =>
        /\ GroupBFraction(mcResult) > GroupBFraction(mcFirst.result)
        /\ mcResult.fairnessImprovement > mcFirst.result.fairnessImprovement

\* C6 (amended): the fairness-heavy weights give group B a strictly smaller
\* fraction (0.9) than the accuracy-heavy weights do (1.0), and a strictly
\* greater fairnessImprovement (87.6 against 71.0).
C6_ScenarioBShiftsTowardA ==
    ScenarioBAfterA =>
        /\ GroupBFraction(mcResult) < GroupBFraction(mcFirst.result)
        /\ mcResult.fairnessImprovement > mcFirst.result.fairnessImprovement

C6_Witness ==
    /\ ScenarioBAfterA
    /\ GroupBFraction(mcResult) = 900
    /\ GroupBFraction(mcFirst.result) = 1000
    /\ mcResult.fairnessImprovement = 876
    /\ mcFirst.result.fairnessImprovement = 710

\* C3 (as claimed): along the returned paretoFrontier every point's reported
\* fairnessGap is strictly below the previous point's and its reported
\* outcome is at most the previous point's.
C3_ParetoMonotone ==
    Finished =>
        \A i \in 1 .. Len(mcResult.paretoFrontier) - 1 :
            /\ mcResult.paretoFrontier[i + 1].fairnessGap
                   < mcResult.paretoFrontier[i].fairnessGap
            /\ mcResult.paretoFrontier[i + 1].outcome
                   <= mcResult.paretoFrontier[i].outcome

WeightsValid(w) ==
    /\ w.accuracy + w.fairness + w.robustness = 100
    /\ w.accuracy >= 0 /\ w.fairness >= 0 /\ w.robustness >= 0

\* C4 (as claimed): a call whose weights do not sum to 100, or have a
\* negative component, runs no simulation and computes no result.
C4_InvalidWeightsRejected ==
    (mcPc \in {"loop", "done"} /\ ~WeightsValid(mcInput.weights)) =>
        /\ mcResults = <<>>
        /\ mcResult = NoResult

\* A finished call whose asymmetry has exactly one group.
OneGroupDone ==
    /\ Finished
    /\ mcInput.asymmetry.present
    /\ Len(mcInput.asymmetry.groups) = 1

\* C5 (as claimed): a one-group input returns the single arm [1.0] for that
\* group, with a fairness gap of zero.
C5_SingleGroupShortCircuit ==
    OneGroupDone =>
        /\ Len(mcResult.optimalAllocation) = 1
        /\ mcResult.optimalAllocation[1].groupName
               = mcInput.asymmetry.groups[1].groupName
        /\ mcResult.optimalAllocation[1].allocation = AUnit
        /\ mcResults[1].avgFairnessGap = 0

\* C5 (amended): a one-group input is simulated with the two default
\* profiles: the returned optimalAllocation has the two arms "Group A
\* (Advantaged)" and "Group B (Disadvantaged)", a grid split summing to 1.
C5_SingleGroupFallsBack ==
    OneGroupDone =>
        /\ Len(mcResult.optimalAllocation) = 2
        /\ mcResult.optimalAllocation[1].groupName = "Group A (Advantaged)"
        /\ mcResult.optimalAllocation[2].groupName = "Group B (Disadvantaged)"
        /\ mcResult.optimalAllocation[1].allocation
               + mcResult.optimalAllocation[2].allocation = AUnit
        /\ mcResult.totalRuns = mcInput.numRuns * (GridSteps + 1)

C5_Witness ==
    /\ OneGroupDone
    /\ mcInput.asymmetry = OneGroup
    /\ Len(mcProfiles) = 2
    /\ Len(mcResults) = GridSteps + 1

\* The mean of the scores, and the claimed test: the mean squared deviation
\* of the top scores from their mean is below 0.001.
RECURSIVE SumScores(_, _)
SumScores(scores, i) ==
    IF i > Len(scores) THEN 0 ELSE scores[i] + SumScores(scores, i + 1)

VarianceAboutMeanBelowThreshold(topScores) ==
    SumSqDev(topScores, RoundDiv(SumScores(topScores, 1), Len(topScores)), 1)
        < Len(topScores) * 10000000

ClaimedConfidence(numRuns, topScores) ==
    IF numRuns >= 500 /\ VarianceAboutMeanBelowThreshold(topScores) THEN "high"
    ELSE IF numRuns >= 100 THEN "moderate"
    ELSE "low"

\* C8 (as claimed): confidence is "high" exactly when numRuns >= 500 and the
\* variance of the five highest scores about their mean is below 0.001,
\* otherwise "moderate" exactly when numRuns >= 100, otherwise "low".
C8_ConfidenceRule ==
    Finished =>
        mcResult.confidence = ClaimedConfidence(mcInput.numRuns, TopScores(mcResults))

\* C10: a call with the input of the first call returns the first call's
\* result, field for field, whatever calls came in between.
C10_SameInputSameResult ==
    (Finished /\ mcInput = mcFirst.input) => mcResult = mcFirst.result

C10_Witness ==
    /\ Finished
    /\ mcRepeat
    /\ mcInput = mcFirst.input
    /\ mcResult = mcFirst.result
    /\ mcResult.totalRuns > 0


NextRng == RandCall /\ UNCHANGED <<infVars, mcVars, appVars, moreVars>>

SpecRng == InitRng /\ [][NextRng]_vars

\* C9 (as claimed): after every call the state is the exact linear
\* congruential successor of the previous state, and the returned value
\* h % modulus / modulus lies in [0, 1).
C9_ExactRecurrence ==
    rngCalls > 0 =>
        /\ rngH = ExactLcgNext(rngPrev)
        /\ rngOut = rngH % rngMod
        /\ 0 <= rngOut /\ rngOut < rngMod

----------------------------------------------------------------------------
(***************************************************************************)
(* The candidate loop with its iterations taken in any order.  The loop    *)
(* body of runMonteCarloAllocation reads alloc, profiles, numRuns, seed    *)
(* and the two weights, and creates its own generator; here the body runs  *)
(* for the lowest or the highest candidate not yet evaluated, and each     *)
(* entry is kept at its candidate's place in generation order.             *)
(***************************************************************************)
PendingEntry == [allocations |-> <<>>, avgOutcome |-> -1, avgFairnessGap |-> -1, score |-> 0]

Pending(results) == {i \in 1 .. Len(results) : results[i] = PendingEntry}

MinOf(S) == CHOOSE x \in S : \A y \in S : x <= y
MaxOf(S) == CHOOSE x \in S : \A y \in S : x >= y

McStartAnyOrder(input) ==
    /\ mcPc \in {"idle", "done"}
    /\ mcInput' = input
    /\ mcProfiles' = buildGroupProfiles(input.asymmetry)
    /\ mcResults' = [i \in 1 .. Len(generateAllocationGrid(
                                      Len(buildGroupProfiles(input.asymmetry)),
                                      GridSteps)) |-> PendingEntry]
    /\ mcIdx' = 0
    /\ mcResult' = NoResult
    /\ mcPc' = "loop"
    /\ mcRepeat' = (mcFirst # NoFirst /\ mcFirst.input = input)
    /\ UNCHANGED <<mcRand, mcFirst, infVars, rngVars, appVars, moreVars>>

McPlace(i, e) ==
    /\ mcResults' = [mcResults EXCEPT ![i] = e.entry]
    /\ mcRand' = e.h

McEvalAt(i) ==
    /\ McPlace(i, EvaluateCandidate(
                      generateAllocationGrid(Len(mcProfiles), GridSteps)[i],
                      mcProfiles, mcInput.weights, mcInput.numRuns, mcInput.seed))
    /\ mcIdx' = mcIdx + 1
    /\ UNCHANGED <<mcPc, mcInput, mcProfiles, mcResult, mcFirst, mcRepeat,
                   infVars, rngVars, appVars, moreVars>>

McEvalLowest ==
    /\ mcPc = "loop"
    /\ Pending(mcResults) # {}
    /\ McEvalAt(MinOf(Pending(mcResults)))

McEvalHighest ==
    /\ mcPc = "loop"
    /\ Pending(mcResults) # {}
    /\ McEvalAt(MaxOf(Pending(mcResults)))

McFinishAnyOrder ==
    /\ mcPc = "loop"
    /\ Pending(mcResults) = {}
    /\ McReturn(FinishResult(mcResults, mcProfiles, mcInput.numRuns, mcInput.seed))
    /\ mcPc' = "done"
    /\ UNCHANGED <<mcInput, mcProfiles, mcIdx, mcRepeat, infVars, rngVars, appVars, moreVars>>

AnyOrderInputs ==
    {x \in McInputs : /\ x.weights = [accuracy |-> 40, fairness |-> 40, robustness |-> 20]
                      /\ x.asymmetry \in {NoAsymmetry, TwoRated}
                      /\ x.seed = SeedCommunity}

McAnyOrderCall == \E input \in AnyOrderInputs : McStartAnyOrder(input)

NextAnyOrder == McAnyOrderCall \/ McEvalLowest \/ McEvalHighest \/ McFinishAnyOrder

SpecAnyOrder == InitMC /\ [][NextAnyOrder]_vars

GridIndex(allocations, numGroups) ==
    MinOf({i \in 1 .. Len(generateAllocationGrid(numGroups, GridSteps)) :
              generateAllocationGrid(numGroups, GridSteps)[i].allocations = allocations})

\* C12: the returned optimal allocation is that of a candidate of maximal
\* score, and among the candidates of maximal score it is the one generated
\* first.
C12_OptimumIsFirstMaximum ==
    Finished =>
        /\ \A i \in 1 .. Len(mcProfiles) :
               mcResult.optimalAllocation[i].allocation
                   = AllocFixed3(mcResults[1].allocations[i])
        /\ \A k \in 1 .. Len(mcResults) :
               /\ mcResults[k].score <= mcResults[1].score
               /\ mcResults[k].score = mcResults[1].score =>
                      GridIndex(mcResults[1].allocations, Len(mcProfiles))
                          <= GridIndex(mcResults[k].allocations, Len(mcProfiles))

\* Every candidate has the maximal score and the first grid point is returned.
C12_Witness ==
    /\ Finished
    /\ Len(mcResults) = GridSteps + 1
    /\ \A k \in 1 .. Len(mcResults) : mcResults[k].score = mcResults[1].score
    /\ GridIndex(mcResults[1].allocations, Len(mcProfiles)) = 1
    /\ mcResult.optimalAllocation[1].allocation = 0

\* C13 (as claimed): for every call efficiencySacrifice and
\* fairnessImprovement are defined numbers, neither negative.
C13_BaselinesDefinedNonNegative ==
    Finished =>
        /\ mcResult.efficiencySacrifice # NaN
        /\ mcResult.efficiencySacrifice >= 0
        /\ mcResult.fairnessImprovement # NaN
        /\ mcResult.fairnessImprovement >= 0


\* ---- buildGroupProfiles on its own ----
\* Rate metrics (in 1e-6) below 0.30, inside [0.30, 0.95] and above 0.95, and
\* a group without a rate metric.
ProfileRates == {NoRate, 0, 100000, 300000, 550000, 950000, 1000000}
ProfileCounts == {0, 1, 3}

ProfileGroups(name) == [groupName : {name}, count : ProfileCounts, rate : ProfileRates]

ThreeGroups ==
    {<<[groupName |-> "g1", count |-> 1, rate |-> r1],
       [groupName |-> "g2", count |-> 1, rate |-> NoRate],
       [groupName |-> "g3", count |-> 3, rate |-> r3]>> :
        r1 \in ProfileRates, r3 \in ProfileRates}

ProfileAsymmetries ==
    {NoAsymmetry}
    \cup {[present |-> TRUE, groups |-> g] :
            g \in {<<>>}
                  \cup {<<a>> : a \in ProfileGroups("g1")}
                  \cup {<<a, b>> : a \in ProfileGroups("g1"), b \in ProfileGroups("g2")}
                  \cup ThreeGroups}

\* const profiles = buildGroupProfiles(asymmetry)
BuildProfiles(asymmetry) ==
    /\ mcPc \in {"idle", "profiles"}
    /\ mcInput' = [NoInput EXCEPT !.asymmetry = asymmetry]
    /\ mcProfiles' = buildGroupProfiles(asymmetry)
    /\ mcPc' = "profiles"
    /\ UNCHANGED <<mcIdx, mcResults, mcRand, mcResult, mcFirst, mcRepeat,
                   infVars, rngVars, appVars, moreVars>>

NextProfiles == \E asymmetry \in ProfileAsymmetries : BuildProfiles(asymmetry)

SpecProfiles == InitMC /\ [][NextProfiles]_vars

ProfilesBuilt == mcPc = "profiles"

Sparse(asymmetry) == ~asymmetry.present \/ Len(asymmetry.groups) < 2

\* C14: for a null asymmetry or one with fewer than two groups the profiles
\* are exactly the two defaults: advantaged (baseline 0.85, responsiveness
\* 0.10) and disadvantaged (0.55, 0.35), each with population share 0.5, the
\* shares summing to 1.
C14_SparseGivesTwoDefaults ==
    (ProfilesBuilt /\ Sparse(mcInput.asymmetry)) =>
        /\ Len(mcProfiles) = 2
        /\ mcProfiles[1].name = "Group A (Advantaged)"
        /\ mcProfiles[1].baselineOutcome = 850000
        /\ mcProfiles[1].responsiveness = 100000
        /\ mcProfiles[2].name = "Group B (Disadvantaged)"
        /\ mcProfiles[2].baselineOutcome = 550000
        /\ mcProfiles[2].responsiveness = 350000
        /\ \A i \in 1 .. 2 : 2 * mcProfiles[i].share = SumShares(mcProfiles, 1)
        /\ mcProfiles[1].share + mcProfiles[2].share = SumShares(mcProfiles, 1)

\* The profiles of an asymmetry with a single group have been built.
C14_Witness ==
    /\ ProfilesBuilt
    /\ mcInput.asymmetry.present
    /\ Len(mcInput.asymmetry.groups) = 1
    /\ Len(mcProfiles) = 2


---------------------------------------------------------------------------
(***************************************************************************)
(* Non-negative doubles, for the places where the code rounds a quotient.  *)
(* A double is [m, e]: the value m * 2^e with the significand m held as    *)
(* four 16-bit limbs, 2^52 <= m < 2^53 (top limb in 16 .. 31), or m = 0.   *)
(* Every operation rounds its exact result to 53 bits, ties to even.       *)
(***************************************************************************)
DblZero == [m |-> <<0, 0, 0, 0>>, e |-> 0]

\* 2^n for 0 <= n <= 17.
Pow2(n) ==
    <<1, 2, 4, 8, 16, 32, 64, 128, 256, 512, 1024, 2048, 4096, 8192, 16384,
      32768, 65536, 131072>>[n + 1]

\* The number of bits of 0 <= x < 2^17.
BitLen(x) == CHOOSE b \in 0 .. 17 : x < Pow2(b) /\ (b = 0 \/ x >= Pow2(b - 1))

\* d moved up or down by j whole limbs.
LimbsUp(d, j) ==
    [i \in 1 .. 4 |-> IF i + j <= 4 THEN d[i + j] ELSE 0]

LimbsDown(d, j) ==
    [i \in 1 .. 4 |-> IF i - j >= 1 THEN d[i - j] ELSE 0]

\* d * 2^n for a limb number d whose product stays below 2^64.
ShiftL(d, n) ==
    Norm4(LimbsUp(d, n \div 16)[1] * Pow2(n % 16),
          LimbsUp(d, n \div 16)[2] * Pow2(n % 16),
          LimbsUp(d, n \div 16)[3] * Pow2(n % 16),
          LimbsUp(d, n \div 16)[4] * Pow2(n % 16))

\* floor(c / 2^n) for a limb number c and 0 <= n < 16.
BitsDown(c, n) ==
    <<c[1] \div Pow2(n),
      (c[1] % Pow2(n)) * Pow2(16 - n) + c[2] \div Pow2(n),
      (c[2] % Pow2(n)) * Pow2(16 - n) + c[3] \div Pow2(n),
      (c[3] % Pow2(n)) * Pow2(16 - n) + c[4] \div Pow2(n)>>

\* floor(d / 2^n) for 0 <= n < 64.
ShiftR(d, n) == BitsDown(LimbsDown(d, n \div 16), n % 16)

\* The number of bits of a limb number with top limb below 2^17.
BitLen4(d) ==
    IF d[1] # 0 THEN 48 + BitLen(d[1])
    ELSE IF d[2] # 0 THEN 32 + BitLen(d[2])
    ELSE IF d[3] # 0 THEN 16 + BitLen(d[3])
    ELSE BitLen(d[4])

\* The double of an exact limb number d * 2^e that has at most 53
\* significant bits.
DblNormal(d, e) ==
    IF d = DblZero.m THEN DblZero
    ELSE IF BitLen4(d) > 53
    THEN [m |-> ShiftR(d, BitLen4(d) - 53), e |-> e + (BitLen4(d) - 53)]
    ELSE [m |-> ShiftL(d, 53 - BitLen4(d)), e |-> e - (53 - BitLen4(d))]

\* The double nearest to the exact limb number d * 2^e (d < 2^64).
DblRound(d, e) == DblNormal(Round53(d), e)

\* An integer 0 <= k < 2^31 as a double.
DblOfInt(k) == DblNormal(<<0, 0, k \div Limb, k % Limb>>, 0)

\* Long division of a limb number by 1 <= k < 2^15: quotient and remainder.
DivStep(acc, limb, k) ==
    [q |-> Append(acc.q, (acc.r * Limb + limb) \div k),
     r |-> (acc.r * Limb + limb) % k]

DivLimbs(d, k) ==
    DivStep(DivStep(DivStep(DivStep([q |-> <<>>, r |-> 0], d[1], k), d[2], k), d[3], k),
            d[4], k)

\* t further bits of the quotient qr of a division by k.
DivExtend(qr, k, t) ==
    [q |-> <<ShiftL(qr.q, t)[1], ShiftL(qr.q, t)[2], ShiftL(qr.q, t)[3],
             ShiftL(qr.q, t)[4] + (qr.r * Pow2(t)) \div k>>,
     r |-> (qr.r * Pow2(t)) % k]

\* A quotient with the bits below it recorded: its last bit is set when the
\* remainder is not 0, so that rounding sees an inexact quotient as such.
Sticky(qr) ==
    IF qr.r = 0 THEN qr.q
    ELSE <<qr.q[1], qr.q[2], qr.q[3], qr.q[4] + (1 - (qr.q[4] % 2))>>

\* The bits a quotient by k needs beyond those of a divisor below 2^9.
ExtraBits(k) == Max2(0, BitLen(k) - 9)

\* x / k for an integer 1 <= k < 2^15: the significand is moved up 11 bits
\* and divided, and the quotient is continued until it has 55 bits or more.
DblDivInt(x, k) ==
    IF x = DblZero THEN DblZero
    ELSE DblRound(Sticky(DivExtend(DivLimbs(ShiftL(x.m, 11), k), k, ExtraBits(k))),
                  x.e - 11 - ExtraBits(k))

\* x * c for an integer 0 <= c < 2^11.
DblMulInt(x, c) ==
    DblRound(Norm4(x.m[1] * c, x.m[2] * c, x.m[3] * c, x.m[4] * c), x.e)

\* floor(2 * d * 2^e) of an exact limb number, where that is below 2^31.
TwiceFloor(d, e) ==
    IF e >= -1 THEN 2 * (d[3] * Limb + d[4])
    ELSE IF e < -65 THEN 0
    ELSE (ShiftR(d, (-e) - 1)[3] % HalfLimb) * Limb + ShiftR(d, (-e) - 1)[4]

\* Math.round(x) for 0 <= x < 2^29: floor(x + 0.5), computed exactly.
MathRound(x) == (TwiceFloor(x.m, x.e) + 1) \div 2

\* The digits of x.toFixed(3) as an integer number of thousandths, for
\* 0 <= x < 2: the n with n / 1000 nearest the exact value of x, the larger
\* one of two.
ToFixed3(x) ==
    (TwiceFloor(Norm4(x.m[1] * 1000, x.m[2] * 1000, x.m[3] * 1000, x.m[4] * 1000), x.e)
     + 1) \div 2

\* 2^n as a limb number, 0 <= n < 64.
PowerOfTwo(n) == ShiftL(<<0, 0, 0, 1>>, n)

\* d - c for limb numbers d >= c.
SubLimbs(d, c) ==
    LET b0 == IF d[4] < c[4] THEN 1 ELSE 0
        b1 == IF d[3] - b0 < c[3] THEN 1 ELSE 0
        b2 == IF d[2] - b1 < c[2] THEN 1 ELSE 0
    IN  <<d[1] - b2 - c[1],
          (d[2] - b1 - c[2]) + b2 * Limb,
          (d[3] - b0 - c[3]) + b1 * Limb,
          (d[4] - c[4]) + b0 * Limb>>

\* 1 - x for a double 2^-11 <= x <= 1 (the difference is then exact at the
\* scale of x, and rounded).
DblOneMinus(x) ==
    IF x = DblZero THEN DblOfInt(1)
    ELSE DblRound(SubLimbs(PowerOfTwo(-x.e), x.m), x.e)


\* ---- sums, differences and products of doubles ----
LimbsLess(a, b) ==
    \E i \in 1 .. 4 : a[i] < b[i] /\ \A j \in 1 .. i - 1 : a[j] = b[j]

AddLimbs(a, b) == Norm4(a[1] + b[1], a[2] + b[2], a[3] + b[3], a[4] + b[4])

\* r with its last bit set unless exact: r stands for a number with bits
\* below its last one.
OrSticky(r, exact) ==
    IF exact THEN r ELSE <<r[1], r[2], r[3], r[4] + (1 - (r[4] % 2))>>

\* floor(d / 2^n) with the lost bits recorded in the last bit.
StickyShiftR(d, n) ==
    IF n > 60 THEN OrSticky(DblZero.m, d = DblZero.m)
    ELSE OrSticky(ShiftR(d, n), ShiftL(ShiftR(d, n), n) = d)

\* big + small or big - small for doubles big >= small > 0: both
\* significands get three further bits, the smaller is brought to the
\* exponent of the larger, and the sum is rounded.
AddAligned(big, small, minus) ==
    DblRound(IF minus
             THEN SubLimbs(ShiftL(big.m, 3),
                           StickyShiftR(ShiftL(small.m, 3), big.e - small.e))
             ELSE AddLimbs(ShiftL(big.m, 3),
                           StickyShiftR(ShiftL(small.m, 3), big.e - small.e)),
             big.e - 3)

DblLess(x, y) ==
    IF x = DblZero THEN y # DblZero
    ELSE IF y = DblZero THEN FALSE
    ELSE x.e < y.e \/ (x.e = y.e /\ LimbsLess(x.m, y.m))

\* x + y
DblAdd(x, y) ==
    IF x = DblZero THEN y
    ELSE IF y = DblZero THEN x
    ELSE IF DblLess(x, y) THEN AddAligned(y, x, FALSE)
    ELSE AddAligned(x, y, FALSE)

\* x - y for x >= y
DblSub(x, y) ==
    IF y = DblZero THEN x
    ELSE IF x = y THEN DblZero
    ELSE AddAligned(x, y, TRUE)

\* The significand of y as seven bytes, the lowest first.
Bytes(m) ==
    <<m[4] % 256, m[4] \div 256, m[3] % 256, m[3] \div 256,
      m[2] % 256, m[2] \div 256, m[1]>>

\* One step of the product: the sum so far moves down a byte (v is its
\* integer part, s tells whether bits were lost) and m * byte is added.
MulStep(acc, m, byte) ==
    [v |-> AddLimbs(ShiftR(acc.v, 8),
                    Norm4(m[1] * byte, m[2] * byte, m[3] * byte, m[4] * byte)),
     s |-> acc.s \/ acc.v[4] % 256 # 0]

\* floor(m * n / 2^48) of two significands, with the lost bits recorded.
MulLimbs(m, b) ==
    MulStep(MulStep(MulStep(MulStep(MulStep(MulStep(MulStep(
        [v |-> DblZero.m, s |-> FALSE], m, b[1]), m, b[2]), m, b[3]), m, b[4]),
        m, b[5]), m, b[6]), m, b[7])

StickyProduct(p) == OrSticky(p.v, ~p.s)

\* x * y
DblMul(x, y) ==
    IF x = DblZero \/ y = DblZero THEN DblZero
    ELSE DblRound(StickyProduct(MulLimbs(x.m, Bytes(y.m))), x.e + y.e + 48)

---------------------------------------------------------------------------
(***************************************************************************)
(* Community aggregation (analytics): computeCommunityWeights and          *)
(* computeInsights over the responses of the store.  A response keeps the  *)
(* fields the aggregates read or the claims name: the kind of its id       *)
(* ("sample-..." or "resp-..."), selectedScenarioId, accuracyVsFairness    *)
(* and inferredWeights.                                                    *)
(***************************************************************************)
NoWeights3 == [accuracy |-> -1, fairness |-> -1, robustness |-> -1]

\* totalAccuracy: the sum of accuracyVsFairness over rs[lo .. hi].
RECURSIVE TotalAccuracy(_, _, _)
TotalAccuracy(rs, lo, hi) ==
    IF lo > hi THEN 0
    ELSE IF lo = hi THEN rs[lo].accuracyVsFairness
    ELSE TotalAccuracy(rs, lo, (lo + hi) \div 2)
         + TotalAccuracy(rs, ((lo + hi) \div 2) + 1, hi)

\* const remaining = 100 - robustness; fairness = remaining - accuracy
SplitRemaining(acc) ==
    [accuracy |-> acc, fairness |-> (100 - 15) - acc, robustness |-> 15]

\* Math.round((avgAccuracy / 100) * remaining), every step in doubles.
RoundedShare(totalAccuracy, n) ==
    MathRound(DblMulInt(DblDivInt(DblDivInt(DblOfInt(totalAccuracy), n), 100),
                        100 - 15))

computeCommunityWeights(rs) ==
    IF Len(rs) = 0
    THEN [accuracy |-> 50, fairness |-> 30, robustness |-> 20]
    ELSE SplitRemaining(RoundedShare(TotalAccuracy(rs, 1, Len(rs)), Len(rs)))


\* ---- generateSampleVotes (sampleVotes.ts) ----
\* The vote profiles: scenario and accFair.
SampleProfiles ==
    << <<"scenario-a", 78>>, <<"scenario-a", 82>>, <<"scenario-a", 71>>,
       <<"scenario-c", 18>>, <<"scenario-c", 25>>, <<"scenario-c", 12>>,
       <<"scenario-c", 22>>,
       <<"scenario-b", 55>>, <<"scenario-b", 48>>, <<"scenario-b", 42>>,
       <<"scenario-b", 60>>, <<"scenario-b", 35>>,
       <<"scenario-a", 88>>, <<"scenario-c", 15>>, <<"scenario-b", 50>> >>

\* Math.round((rand() - 0.5) * 8) for rand() = v / 10000: the half-way
\* points are multiples of 1 / 16, which doubles hold exactly.
Jitter(v) == (v - 4375) \div 1250

\* One vote of the loop: s1 and s2 are the generator's states after its two
\* calls, timestamps count from baseTime.
SampleVote(i, timeStep, s1, s2) ==
    [id |-> "sample",
     timestamp |-> (i - 1) * timeStep + (s2 % McModulus),
     selectedScenarioId |-> SampleProfiles[i][1],
     accuracyVsFairness |->
         Max2(0, Min2(100, SampleProfiles[i][2] + Jitter(s1 % McModulus))),
     inferredWeights |-> NoWeights3]

\* The votes i .. n, the generator being in state s before vote i.
RECURSIVE SampleVotesFrom(_, _, _, _)
SampleVotesFrom(i, n, timeStep, s) ==
    IF i > n \/ s < 0 THEN <<>>
    ELSE <<SampleVote(i, timeStep, LcgNext(s), LcgNext(LcgNext(s)))>>
         \o SampleVotesFrom(i + 1, n, timeStep, LcgNext(LcgNext(s)))

\* rand = seededRng(42); votesToGenerate = Math.min(count, profiles.length)
generateSampleVotes(count) ==
    SampleVotesFrom(1, Min2(count, Len(SampleProfiles)),
                    300000 \div Min2(count, Len(SampleProfiles)), 42)

\* ---- computeInsights ----
ScenarioIds(rs) == {rs[i].selectedScenarioId : i \in 1 .. Len(rs)}

\* scenarioCounts[id]
ScenarioCount(rs, id) ==
    Cardinality({i \in 1 .. Len(rs) : rs[i].selectedScenarioId = id})

\* Math.max(...Object.values(scenarioCounts), 0)
MaxCluster(rs) ==
    IF Len(rs) = 0 THEN 0
    ELSE CHOOSE c \in {ScenarioCount(rs, id) : id \in ScenarioIds(rs)} :
            \A id \in ScenarioIds(rs) : ScenarioCount(rs, id) <= c

\* The largest cluster's share itself, not its complement.
PolarizationIndexOfShare(maxCluster, n) ==
    IF n > 0 THEN ToFixed3(DblDivInt(DblOfInt(maxCluster), n)) ELSE 0

\* +(1 - maxCluster / responses.length).toFixed(3), in thousandths.
PolarizationIndex(maxCluster, n) ==
    IF n > 0 THEN ToFixed3(DblOneMinus(DblDivInt(DblOfInt(maxCluster), n))) ELSE 0

\* ---- preference drift ----
\* x.toFixed(1) as an integer number of tenths, for 0 <= x <= 100: the n
\* with n / 10 nearest the exact value of x, the larger one of two.
ToFixed1(x) ==
    (TwiceFloor(Norm4(x.m[1] * 10, x.m[2] * 10, x.m[3] * 10, x.m[4] * 10), x.e) + 1) \div 2

\* The number +x.toFixed(1) of n tenths: the double nearest to n / 10.
OfTenths(n) == DblDivInt(DblOfInt(n), 10)

\* [...responses].sort((a, b) => a.timestamp - b.timestamp): ascending and
\* stable; r goes after the entries whose timestamp is not above its own.
RECURSIVE InsertByTimestamp(_, _, _)
InsertByTimestamp(sorted, r, i) ==
    IF i > Len(sorted) THEN Append(sorted, r)
    ELSE IF sorted[i].timestamp > r.timestamp
    THEN SubSeq(sorted, 1, i - 1) \o <<r>> \o SubSeq(sorted, i, Len(sorted))
    ELSE InsertByTimestamp(sorted, r, i + 1)

RECURSIVE SortFrom(_, _, _)
SortFrom(rs, i, acc) ==
    IF i > Len(rs) THEN acc ELSE SortFrom(rs, i + 1, InsertByTimestamp(acc, rs[i], 1))

\* (An array already in order is returned as it is.)
SortByTimestamp(rs) ==
    IF \A i \in 1 .. Len(rs) - 1 : rs[i].timestamp <= rs[i + 1].timestamp
    THEN rs
    ELSE SortFrom(rs, 1, <<>>)

\* A chunk size rounded up instead of down.
ChunkSizeRoundedUp(n) == Max2(1, (n + 5) \div 6)

\* const chunkSize = Math.max(1, Math.floor(sorted.length / 6))
ChunkSize(n) == Max2(1, n \div 6)

\* The point pushed for the chunk sorted[lo .. hi] whose accuracy mean is
\* avgAcc: avgFair = 100 - avgAcc, both reported toFixed(1), in tenths.
DriftPointOfMean(sorted, lo, avgAcc) ==
    [timestamp |-> sorted[lo].timestamp,
     averageAccuracyPref |-> ToFixed1(avgAcc),
     averageFairnessPref |-> ToFixed1(DblSub(DblOfInt(100), avgAcc))]

\* avgAcc = chunk.reduce((s, r) => s + r.accuracyVsFairness, 0) / chunk.length
DriftPoint(sorted, lo, hi) ==
    DriftPointOfMean(sorted, lo,
        DblDivInt(DblOfInt(TotalAccuracy(sorted, lo, hi)), hi - lo + 1))

\* for (let i = 0; i < sorted.length; i += chunkSize): one point per chunk.
DriftOfSorted(sorted, chunkSize) ==
    [k \in 1 .. (Len(sorted) + chunkSize - 1) \div chunkSize |->
        DriftPoint(sorted, (k - 1) * chunkSize + 1, Min2(k * chunkSize, Len(sorted)))]

preferenceDrift(rs) == DriftOfSorted(SortByTimestamp(rs), ChunkSize(Len(rs)))

\* if (last - first > 3) ... else if (first - last > 3) ..., on the reported
\* averageFairnessPref numbers, the difference taken in doubles.
TrendOfEnds(first, last) ==
    IF DblLess(first, last) /\ DblLess(DblOfInt(3), DblSub(last, first))
    THEN "increasing_fairness"
    ELSE IF DblLess(last, first) /\ DblLess(DblOfInt(3), DblSub(first, last))
    THEN "increasing_efficiency"
    ELSE "stable"

trendDirection(drift) ==
    IF Len(drift) >= 2
    THEN TrendOfEnds(OfTenths(drift[1].averageFairnessPref),
                     OfTenths(drift[Len(drift)].averageFairnessPref))
    ELSE "stable"

\* The fields of the returned CommunityInsights that the claims name.
InsightsOfDrift(rs, drift) ==
    [polarizationIndex |-> PolarizationIndex(MaxCluster(rs), Len(rs)),
     preferenceDrift |-> drift,
     trendDirection |-> trendDirection(drift),
     totalResponses |-> Len(rs)]

computeInsights(rs) == InsightsOfDrift(rs, preferenceDrift(rs))

\* ---- the dashboard's aggregates of a response set ----
ScenarioSet == {"scenario-a", "scenario-b"}
SliderValues == {0, 70, 100}
SomeInferred == [accuracy |-> 20, fairness |-> 70, robustness |-> 10]

SmallResponses ==
    [id : {"resp"}, timestamp : {0}, selectedScenarioId : ScenarioSet,
     accuracyVsFairness : SliderValues, inferredWeights : {NoWeights3, SomeInferred}]

MaxResponses == 3

ShortResponseSets ==
    UNION {[1 .. n -> SmallResponses] : n \in 0 .. MaxResponses}

\* n responses of which all but the last `others` select scenario-a.
Lopsided(n, others) ==
    [i \in 1 .. n |->
        [id |-> "resp", timestamp |-> 0,
         selectedScenarioId |-> IF i <= n - others THEN "scenario-a" ELSE "scenario-b",
         accuracyVsFairness |-> 50, inferredWeights |-> NoWeights3]]

LargeResponseSets == {Lopsided(n, 1) : n \in {1999, 2000, 2001}}

\* Bound: the longest response set of the drift families.
MaxDrift == 31

\* n responses stored latest first, with spread-out preferences.
LatestFirst(n) ==
    [i \in 1 .. n |->
        [id |-> "resp", timestamp |-> n - i, selectedScenarioId |-> "scenario-a",
         accuracyVsFairness |-> (37 * i) % 101, inferredWeights |-> NoWeights3]]

\* n responses in order of time whose preference falls by `fall` per vote.
Falling(n, fall) ==
    [i \in 1 .. n |->
        [id |-> "resp", timestamp |-> i, selectedScenarioId |-> "scenario-a",
         accuracyVsFairness |-> Max2(0, 100 - fall * i), inferredWeights |-> NoWeights3]]

\* 30 responses in order of time: the first five have mean accuracy 98.6,
\* the last five 95.6, so that the fairness means of the first and the last
\* bucket are 1.4 and 4.4.
ThreePointsApart ==
    [i \in 1 .. 30 |->
        [id |-> "resp", timestamp |-> i, selectedScenarioId |-> "scenario-a",
         accuracyVsFairness |->
             IF i <= 5 THEN <<99, 99, 99, 98, 98>>[i]
             ELSE IF i >= 26 THEN <<96, 96, 96, 95, 95>>[i - 25]
             ELSE 50,
         inferredWeights |-> NoWeights3]]

DriftResponseSets ==
    {LatestFirst(n) : n \in 0 .. MaxDrift}
    \cup {Falling(n, fall) : n \in 0 .. MaxDrift, fall \in {0, 1}}
    \cup {ThreePointsApart}

CommunityInputs ==
    ShortResponseSets \cup LargeResponseSets \cup DriftResponseSets
    \cup {generateSampleVotes(12), generateSampleVotes(15)}

\* The store holds some response set and the dashboard has not rendered.
InitCommunity ==
    /\ IdleMore
    /\ responses \in CommunityInputs
    /\ comWeights = NoWeights3
    /\ insights = [totalResponses |-> -1]
    /\ IdleAutoML
    /\ IdleInfer
    /\ IdleRng
    /\ IdleMC

\* The dashboard's render over the store's responses:
\*   insights = computeInsights(responses)
\*   communityWeights = computeCommunityWeights(responses)
Aggregate ==
    /\ insights.totalResponses = -1
    /\ insights' = computeInsights(responses)
    /\ comWeights' = computeCommunityWeights(responses)
    /\ UNCHANGED <<responses, amlInput, amlResult, infVars, rngVars, mcVars, moreVars>>

NextCommunity == Aggregate

SpecCommunity == InitCommunity /\ [][NextCommunity]_vars

Aggregated == insights.totalResponses >= 0

\* The exact mean of accuracyVsFairness times 85 / 100, rounded to the
\* nearest integer (a half upwards).
ExactShare(rs) ==
    (2 * 85 * TotalAccuracy(rs, 1, Len(rs)) + 100 * Len(rs)) \div (200 * Len(rs))

\* C15 (as claimed): for a non-empty response set robustness is 15, accuracy
\* is round(mean(accuracyVsFairness) * 85 / 100) and fairness is 85 minus
\* accuracy; the three are non-negative and sum to 100.
C15_CommunityWeightsFormula ==
    (Aggregated /\ Len(responses) > 0) =>
        /\ comWeights.robustness = 15
        /\ comWeights.accuracy = ExactShare(responses)
        /\ comWeights.fairness = 85 - comWeights.accuracy
        /\ comWeights.accuracy >= 0 /\ comWeights.fairness >= 0
        /\ comWeights.accuracy + comWeights.fairness + comWeights.robustness = 100


SeveralScenarios == Cardinality(ScenarioIds(responses)) >= 2

\* |polarizationIndex - (1 - largest cluster / total)| <= 0.0005
WithinRounding ==
    LET n == Len(responses)
        d == insights.polarizationIndex * n - 1000 * (n - MaxCluster(responses))
    IN  2 * (IF d < 0 THEN -d ELSE d) <= n

\* C16 (as claimed): for every response set that selects at least two
\* distinct scenarios polarizationIndex is strictly between 0 and 1 and
\* equals 1 - (largest cluster / total) up to the rounding to 3 decimals.
C16_PolarizationStrictlyBetween ==
    (Aggregated /\ SeveralScenarios) =>
        /\ insights.polarizationIndex > 0
        /\ insights.polarizationIndex < 1000
        /\ WithinRounding

\* C16 (amended): for such a response set polarizationIndex equals
\* 1 - (largest cluster / total) up to the rounding to 3 decimals and lies in
\* [0, 1]; it is strictly between 0 and 1 when there are fewer than 2000
\* responses, and 0.583 for the 12 votes of generateSampleVotes(12).
C16_PolarizationRounded ==
    (Aggregated /\ SeveralScenarios) =>
        /\ WithinRounding
        /\ insights.polarizationIndex \in 0 .. 1000
        /\ (Len(responses) < 2000 =>
                insights.polarizationIndex > 0 /\ insights.polarizationIndex < 1000)
        /\ (responses = generateSampleVotes(12) => insights.polarizationIndex = 583)

\* The insights of the 12 sample votes have been computed.
C16_Witness ==
    /\ Aggregated
    /\ responses = generateSampleVotes(12)
    /\ Cardinality(ScenarioIds(responses)) = 3
    /\ insights.polarizationIndex = 583


---------------------------------------------------------------------------
(***************************************************************************)
(* runAutoML (simulatedAutoML.ts).  Its generator is seededRandom with     *)
(* (h % 1000) / 1000; a generator is followed as its state h.  Metrics and *)
(* the composite score are evaluated in doubles and kept, after            *)
(* toFixed(3), as integer thousandths.                                     *)
(***************************************************************************)
Hints == {"compas", "adult-income", "german-credit", "generic"}

\* a / b as a double: the value of a decimal literal such as 0.45.
Dec(a, b) == DblDivInt(DblOfInt(a), b)

\* The numerator v of rand() = v / 1000 for the state h the call leaves.
RandOf(h) == h % AutoMLModulus

\* n calls of rand().  (No state is below -2^31: the test on h only makes
\* the evaluation settle each state before the next call.)
RECURSIVE Advance(_, _)
Advance(h, n) ==
    IF n <= 0 \/ h < (-MaxInt32) - 1 THEN h ELSE Advance(LcgNext(h), n - 1)

\* rand() > t / 1000 ? a : b, for the state h1 the call leaves.
Pick(h1, t, a, b) == [modelType |-> IF RandOf(h1) > t THEN a ELSE b, h |-> h1]

NoPick(h, a) == [modelType |-> a, h |-> h]

\* selectModelType: the model type and the generator's state afterwards.
selectModelType(weights, h, hint) ==
    IF hint = "compas"
    THEN (IF weights.fairness >= 50 THEN NoPick(h, "LogisticRegression")
          ELSE IF weights.accuracy >= 60
          THEN Pick(LcgNext(h), 500, "GradientBoosting", "RandomForest")
          ELSE NoPick(h, "LogisticRegression"))
    ELSE IF hint = "adult-income"
    THEN (IF weights.accuracy >= 60
          THEN Pick(LcgNext(h), 300, "XGBoost", "GradientBoosting")
          ELSE IF weights.fairness >= 50
          THEN Pick(LcgNext(h), 400, "LogisticRegression", "RandomForest")
          ELSE NoPick(h, "RandomForest"))
    ELSE IF hint = "german-credit"
    THEN (IF weights.fairness >= 50 THEN NoPick(h, "LogisticRegression")
          ELSE IF weights.accuracy >= 60
          THEN Pick(LcgNext(h), 500, "XGBoost", "RandomForest")
          ELSE IF weights.robustness >= 40 THEN NoPick(h, "RandomForest")
          ELSE NoPick(h, "LogisticRegression"))
    ELSE (IF weights.accuracy >= 60
          THEN Pick(LcgNext(h), 400, "XGBoost", "GradientBoosting")
          ELSE IF weights.fairness >= 50
          THEN Pick(LcgNext(h), 500, "LogisticRegression", "SVM")
          ELSE NoPick(h, "RandomForest"))

\* generateHyperparameters: the number of rand() calls it makes (the
\* hyperparameters themselves are not followed).
HyperparameterDraws(modelType) ==
    CASE modelType = "XGBoost" -> 7
      [] modelType = "GradientBoosting" -> 5
      [] modelType = "RandomForest" -> 5
      [] modelType = "LogisticRegression" -> 3
      [] modelType = "SVM" -> 2

\* x + noise() where noise() = (rand() - 0.5) * 0.04 and rand() = v / 1000.
AddNoise(x, v) ==
    IF v >= 500
    THEN DblAdd(x, DblMul(DblSub(Dec(v, 1000), Dec(5, 10)), Dec(4, 100)))
    ELSE DblSub(x, DblMul(DblSub(Dec(5, 10), Dec(v, 1000)), Dec(4, 100)))

\* Math.max(floor, x) only.
ClampFloorOnly(floor, x) == IF DblLess(x, floor) THEN floor ELSE x

\* Math.min(0.99, Math.max(floor, x))
Clamp(floor, x) ==
    IF DblLess(x, floor) THEN floor
    ELSE IF DblLess(Dec(99, 100), x) THEN Dec(99, 100)
    ELSE x

\* base + (w / 100) * slope
WeightBase(base, w, slope) == DblAdd(base, DblMul(Dec(w, 100), slope))

Bonus(modelType, types, bonus) == IF modelType \in types THEN bonus ELSE DblZero

InterpBonus(modelType) ==
    IF modelType = "LogisticRegression" THEN Dec(20, 100)
    ELSE IF modelType = "SVM" THEN Dec(10, 100)
    ELSE DblZero

\* 0.40 + interpBonus + (1 - aw / 100) * 0.2
InterpBase(aw, modelType) ==
    DblAdd(DblAdd(Dec(40, 100), InterpBonus(modelType)),
           DblMul(DblSub(DblOfInt(1), Dec(aw, 100)), Dec(2, 10)))

\* computeMetrics, h being the generator's state before the first noise().
computeMetrics(weights, modelType, h) ==
    [accuracy |->
        ToFixed3(Clamp(Dec(60, 100),
            AddNoise(DblAdd(WeightBase(Dec(70, 100), weights.accuracy, Dec(25, 100)),
                            Bonus(modelType, {"XGBoost", "GradientBoosting"}, Dec(3, 100))),
                     RandOf(Advance(h, 1))))),
     fairnessScore |->
        ToFixed3(Clamp(Dec(40, 100),
            AddNoise(DblAdd(WeightBase(Dec(50, 100), weights.fairness, Dec(45, 100)),
                            Bonus(modelType, {"LogisticRegression", "SVM"}, Dec(5, 100))),
                     RandOf(Advance(h, 2))))),
     robustnessScore |->
        ToFixed3(Clamp(Dec(45, 100),
            AddNoise(DblAdd(WeightBase(Dec(55, 100), weights.robustness, Dec(35, 100)),
                            Bonus(modelType, {"RandomForest"}, Dec(4, 100))),
                     RandOf(Advance(h, 3))))),
     interpretabilityScore |->
        ToFixed3(Clamp(Dec(30, 100),
            AddNoise(InterpBase(weights.accuracy, modelType), RandOf(Advance(h, 4)))))]

\* (w / total) * metric, the metric being the double of its 3 decimals.
WeightedMetric(w, total, metric) ==
    DblMul(DblDivInt(DblOfInt(w), total), Dec(metric, 1000))

\* The composite score of the weights' total and the metrics.
CompositeOf(weights, total, metrics) ==
    IF total = 0 THEN 0
    ELSE ToFixed3(DblAdd(DblAdd(WeightedMetric(weights.accuracy, total, metrics.accuracy),
                                WeightedMetric(weights.fairness, total, metrics.fairnessScore)),
                         WeightedMetric(weights.robustness, total, metrics.robustnessScore)))

computeCompositeScore(weights, metrics) ==
    CompositeOf(weights, weights.accuracy + weights.fairness + weights.robustness, metrics)

\* The decimal digits of 0 <= n <= 999, as code units.
Digits(n) ==
    IF n < 10 THEN <<48 + n>>
    ELSE IF n < 100 THEN <<48 + n \div 10, 48 + (n % 10)>>
    ELSE <<48 + n \div 100, 48 + ((n \div 10) % 10), 48 + (n % 10)>>

\* seed || `${weights.accuracy}-${weights.fairness}-${weights.robustness}`
SeedString(weights, seed) ==
    IF seed # <<>> THEN seed
    ELSE Digits(weights.accuracy) \o <<45>> \o Digits(weights.fairness) \o <<45>>
         \o Digits(weights.robustness)

ResultOfMetrics(weights, modelType, metrics) ==
    [modelType |-> modelType, metrics |-> metrics,
     compositeScore |-> computeCompositeScore(weights, metrics)]

\* The result from the model type chosen and the state sel.h it left.
ResultOfSelection(weights, sel) ==
    ResultOfMetrics(weights, sel.modelType,
        computeMetrics(weights, sel.modelType,
                       Advance(sel.h, HyperparameterDraws(sel.modelType))))

runAutoML(weights, seed, datasetHint) ==
    ResultOfSelection(weights,
        selectModelType(weights, seededRandom(SeedString(weights, seed)),
                        IF datasetHint = "" THEN "generic" ELSE datasetHint))

NoAutoML == [modelType |-> "none"]

WeightValues == {0, 10, 30, 70, 100}
AutoMLSeeds == {<<>>, SeedPersonal}

AutoMLInputs ==
    [weights : [accuracy : WeightValues, fairness : WeightValues, robustness : WeightValues],
     seed : AutoMLSeeds, hint : Hints \cup {""}]

InitAutoML ==
    /\ IdleMore
    /\ amlInput \in AutoMLInputs
    /\ amlResult = NoAutoML
    /\ IdleStore
    /\ IdleInfer
    /\ IdleRng
    /\ IdleMC

RunAutoML ==
    /\ amlResult = NoAutoML
    /\ amlResult' = runAutoML(amlInput.weights, amlInput.seed, amlInput.hint)
    /\ UNCHANGED <<amlInput, responses, comWeights, insights, infVars, rngVars, mcVars, moreVars>>

NextAutoML == RunAutoML

SpecAutoML == InitAutoML /\ [][NextAutoML]_vars

AutoMLDone == amlResult # NoAutoML

\* C17: for weights with components in 0..100, every model type, hint and
\* seed, the returned metrics satisfy accuracy in [0.60, 0.99], fairnessScore
\* in [0.40, 0.99], robustnessScore in [0.45, 0.99] and
\* interpretabilityScore in [0.30, 0.99].
C17_MetricsWithinBounds ==
    AutoMLDone =>
        /\ amlResult.metrics.accuracy \in 600 .. 990
        /\ amlResult.metrics.fairnessScore \in 400 .. 990
        /\ amlResult.metrics.robustnessScore \in 450 .. 990
        /\ amlResult.metrics.interpretabilityScore \in 300 .. 990

\* A run whose accuracy was brought down to 0.99 and whose interpretability
\* was computed for a boosted model.
C17_Witness ==
    /\ AutoMLDone
    /\ amlResult.modelType = "XGBoost"
    /\ amlResult.metrics.accuracy = 990
    /\ amlInput.weights.accuracy = 100


\* The weighted mean of the three metrics, rounded to thousandths (a half
\* upwards).
ExactComposite(weights, metrics) ==
    LET total == weights.accuracy + weights.fairness + weights.robustness
        sum == weights.accuracy * metrics.accuracy
               + weights.fairness * metrics.fairnessScore
               + weights.robustness * metrics.robustnessScore
    IN  IF total = 0 THEN 0 ELSE (2 * sum + total) \div (2 * total)

\* C18 (as claimed): compositeScore is (accuracy weight * accuracy +
\* fairness weight * fairnessScore + robustness weight * robustnessScore) /
\* (sum of the weights) rounded to 3 decimals, whatever interpretabilityScore
\* is, and 0 when the three weights are 0.
C18_CompositeIsRoundedMean ==
    AutoMLDone =>
        amlResult.compositeScore = ExactComposite(amlInput.weights, amlResult.metrics)


---------------------------------------------------------------------------
(***************************************************************************)
(* Vote submission on the scenarios page (handleSurveySubmit) over the     *)
(* store's responses.  The page re-renders after every change of the       *)
(* store, before the next event is handled, so the `responses` the handler *)
(* reads is the store's.  Timestamps count from the moment one hour before *)
(* the first submission.                                                   *)
(***************************************************************************)
MaxVotes == 4

\* What the survey form hands to the handler.
VoteData ==
    [selectedScenarioId : ScenarioSet, accuracyVsFairness : {30, 70},
     inferredWeights : {SomeInferred}]

\* { ...data, id: `resp-...`, timestamp: Date.now() }
UserVote(data, now) ==
    [id |-> "resp", timestamp |-> now,
     selectedScenarioId |-> data.selectedScenarioId,
     accuracyVsFairness |-> data.accuracyVsFairness,
     inferredWeights |-> data.inferredWeights]

\* The handler seeding the sample votes before every vote.
handleSurveySubmitAlwaysSeeds(rs, data, now) ==
    Append(rs \o generateSampleVotes(12), UserVote(data, now))

\* The store's responses after handleSurveySubmit(data): addResponse for
\* each sample vote when responses.length === 0, then for the vote.
handleSurveySubmit(rs, data, now) ==
    IF Len(rs) = 0
    THEN Append(generateSampleVotes(12), UserVote(data, now))
    ELSE Append(rs, UserVote(data, now))

UserVotes(rs) == {i \in 1 .. Len(rs) : rs[i].id = "resp"}
SeededVotes(rs) == {i \in 1 .. Len(rs) : rs[i].id = "sample"}

\* The store is empty, or holds the 15 sample votes the dataset flow seeds.
InitVotes ==
    /\ IdleMore
    /\ responses \in {<<>>, generateSampleVotes(15)}
    /\ comWeights = NoWeights3
    /\ insights = [totalResponses |-> -1]
    /\ IdleAutoML
    /\ IdleInfer
    /\ IdleRng
    /\ IdleMC

SubmitVote ==
    /\ Cardinality(UserVotes(responses)) < MaxVotes
    /\ \E data \in VoteData :
          responses' = handleSurveySubmit(responses, data,
                                          3600000 + Cardinality(UserVotes(responses)))
    /\ UNCHANGED <<comWeights, insights, amlInput, amlResult, infVars, rngVars, mcVars, moreVars>>

\* reset() of the "Change Dataset" button.
ResetStore ==
    /\ responses # <<>>
    /\ responses' = <<>>
    /\ UNCHANGED <<comWeights, insights, amlInput, amlResult, infVars, rngVars, mcVars, moreVars>>

NextVotes == SubmitVote \/ ResetStore

SpecVotes == InitVotes /\ [][NextVotes]_vars

\* A submission: the step that lengthens responses.
Submission == Len(responses') > Len(responses)

Last(rs) == rs[Len(rs)]

\* The seeded votes are one batch of generateSampleVotes at the front.
OneBatchAtMost ==
    \/ SeededVotes(responses) = {}
    \/ \E k \in {12, 15} :
          /\ SeededVotes(responses) = 1 .. k
          /\ SubSeq(responses, 1, k) = generateSampleVotes(k)

\* C19: a submission to an empty store leaves the 12 sample votes followed
\* by the user's vote, 13 responses; a submission to a store that holds a
\* response appends the user's vote only; and the store never contains more
\* than one batch of seeded sample votes.
C19_SeedOnFirstVoteOnly ==
    /\ [][Submission =>
            /\ Last(responses').id = "resp"
            /\ (responses = <<>> =>
                    /\ Len(responses') = 13
                    /\ SubSeq(responses', 1, 12) = generateSampleVotes(12))
            /\ (responses # <<>> =>
                    /\ Len(responses') = Len(responses) + 1
                    /\ SubSeq(responses', 1, Len(responses)) = responses)]_vars
    /\ []OneBatchAtMost

\* Two votes were submitted to an empty store: 12 sample votes, then the two.
C19_Witness ==
    /\ Len(responses) = 14
    /\ SeededVotes(responses) = 1 .. 12
    /\ UserVotes(responses) = {13, 14}


---------------------------------------------------------------------------
\* C20: for an asymmetry with at least two groups every returned profile has
\* baselineOutcome in [0.30, 0.95] and responsiveness equal to
\* max(0.05, 0.4 * (1 - baselineOutcome)) of that returned baselineOutcome,
\* hence in [0.05, 0.28], whatever the group's rate metric is.
C20_ResponsivenessOfReturnedBaseline ==
    (ProfilesBuilt /\ ~Sparse(mcInput.asymmetry)) =>
        \A i \in 1 .. Len(mcProfiles) :
            /\ mcProfiles[i].baselineOutcome \in 300000 .. 950000
            /\ mcProfiles[i].responsiveness =
                   Max2(50000, (2 * (OUnit - mcProfiles[i].baselineOutcome)) \div 5)
            /\ mcProfiles[i].responsiveness \in 50000 .. 280000


---------------------------------------------------------------------------
\* 0.85 - i * (0.25 / (n - 1)) for the group at position i of n (from 1).
SyntheticBaseline(i, n) == 850000 - RoundDiv((i - 1) * 250000, Max2(n - 1, 1))

\* C21: with at least two groups, a group that has a rate metric gets that
\* rate as its baseline (within the returned range [0.30, 0.95]) and a group
\* without one gets the synthetic baseline 0.85 - i * 0.25 / (n - 1) of its
\* index, also when other groups of the asymmetry have a rate.
C21_BaselinePerGroup ==
    (ProfilesBuilt /\ ~Sparse(mcInput.asymmetry)) =>
        LET groups == mcInput.asymmetry.groups
        IN  \A i \in 1 .. Len(groups) :
                mcProfiles[i].baselineOutcome =
                    IF groups[i].rate # NoRate
                    THEN Max2(300000, Min2(950000, groups[i].rate))
                    ELSE SyntheticBaseline(i, Len(groups))


---------------------------------------------------------------------------
\* The candidate (one per grid point, told apart by its first allocation)
\* has a point on the frontier.
OnFrontier(r, frontier) ==
    \E k \in 1 .. Len(frontier) :
        frontier[k].allocation = AllocFixed3(r.allocations[1])

\* No other candidate has both a strictly higher average outcome and a
\* strictly lower average fairness gap.  (Comparisons with NaN are false.)
NonDominated(r, results) ==
    ~ \E k \in 1 .. Len(results) :
          /\ results[k].avgOutcome # NaN
          /\ results[k].avgOutcome > r.avgOutcome
          /\ results[k].avgFairnessGap < r.avgFairnessGap

\* C22: the paretoFrontier is exactly the set of non-dominated candidates: a
\* candidate is on the frontier if and only if no other candidate has both a
\* strictly higher average outcome and a strictly lower average fairness gap.
C22_FrontierIsNonDominatedSet ==
    Finished =>
        \A i \in 1 .. Len(mcResults) :
            OnFrontier(mcResults[i], mcResult.paretoFrontier)
                <=> NonDominated(mcResults[i], mcResults)


---------------------------------------------------------------------------
(***************************************************************************)
(* runMonteCarloAllocation for asymmetries of two and of three groups.     *)
(***************************************************************************)
ThreeRated ==
    [present |-> TRUE, groups |->
    << [groupName |-> "low", count |-> 1, rate |-> 350000],
       [groupName |-> "mid", count |-> 1, rate |-> 500000],
       [groupName |-> "high", count |-> 1, rate |-> 600000] >>]
ThreeUnrated ==
    [present |-> TRUE, groups |->
    << [groupName |-> "first", count |-> 1, rate |-> NoRate],
       [groupName |-> "second", count |-> 1, rate |-> NoRate],
       [groupName |-> "third", count |-> 3, rate |-> NoRate] >>]

McGroupInputs ==
    [weights : {[accuracy |-> 40, fairness |-> 40, robustness |-> 20],
                [accuracy |-> 0, fairness |-> 0, robustness |-> 100]},
     asymmetry : {NoAsymmetry, TwoRated, ThreeRated, ThreeUnrated},
     numRuns : {1, 2},
     seed : {SeedX}]

McGroupCall == \E input \in McGroupInputs : McStart(input)

NextGroups == McGroupCall \/ McEvalCandidate \/ McFinish

SpecGroups == InitMC /\ [][NextGroups]_vars

RECURSIVE SumArms(_, _)
SumArms(arms, i) ==
    IF i > Len(arms) THEN 0 ELSE arms[i].allocation + SumArms(arms, i + 1)

\* One arm per group profile, in profile order, each fraction in [0, 1].
ArmsMatchProfiles ==
    /\ Len(mcResult.optimalAllocation) = Len(mcProfiles)
    /\ \A i \in 1 .. Len(mcProfiles) :
          /\ mcResult.optimalAllocation[i].groupName = mcProfiles[i].name
          /\ mcResult.optimalAllocation[i].allocation \in 0 .. AUnit

\* C23: the optimalAllocation has exactly one arm per group profile, in
\* profile order, each fraction in [0, 1], and the reported fractions
\* (rounded to 3 decimals) sum to exactly 1, for two groups and for three or
\* more groups.
C23_ArmsSumToOne ==
    Finished =>
        /\ ArmsMatchProfiles
        /\ SumArms(mcResult.optimalAllocation, 1) = AUnit


---------------------------------------------------------------------------
\* The equal-split simulation that yields equalOutcome: numRuns runs of the
\* allocation 1/N on the generator seededRandom(seed + 'equal').
EqualOutcomeSim ==
    SimRuns(mcInput.numRuns, EqualAlloc(Len(mcProfiles)), mcProfiles,
            seededRandom(mcInput.seed \o SuffixEqual))

\* C24: equalOutcome and equalFairnessGap are averages over the same
\* simulated runs of the allocation 1/N, drawn from the same random stream:
\* the fairnessImprovement returned is the one computed from the fairness
\* gap of the runs that gave equalOutcome.
C24_EqualBaselinesFromOneSimulation ==
    Finished =>
        mcResult.fairnessImprovement
            = FairnessImprovement(AvgGap(EqualOutcomeSim, mcInput.numRuns), mcResults[1])


---------------------------------------------------------------------------
(***************************************************************************)
(* The loop of inferObjectiveWeights in the arithmetic the code uses:      *)
(* accuracy, fairness and robustness are doubles, and every += and -=      *)
(* rounds.  A signed double is [neg, d] with d a non-negative double.      *)
(***************************************************************************)
SDbl(neg, d) == [neg |-> neg /\ d # DblZero, d |-> d]

SOfInt(k) == IF k < 0 THEN SDbl(TRUE, DblOfInt(-k)) ELSE SDbl(FALSE, DblOfInt(k))

SNeg(x) == SDbl(~x.neg, x.d)

\* x + y
SAdd(x, y) ==
    IF x.neg = y.neg THEN SDbl(x.neg, DblAdd(x.d, y.d))
    ELSE IF DblLess(x.d, y.d) THEN SDbl(y.neg, DblSub(y.d, x.d))
    ELSE SDbl(x.neg, DblSub(x.d, y.d))

\* x - y
SSub(x, y) == SAdd(x, SNeg(y))

\* x * y
SMul(x, y) == SDbl(x.neg # y.neg, DblMul(x.d, y.d))

\* The literal n/10 (0.4, 0.5, 0.6, 1.1, ...): the double nearest to it.
Tenths(n) == SDbl(FALSE, DblDivInt(DblOfInt(n), 10))

\* normalizeLikert / normalizeBinary: a whole number of halves, exactly.
SignalDbl(type, answer) ==
    SDbl(Signal2(type, answer) < 0,
         DblDivInt(DblOfInt(IF Signal2(type, answer) < 0
                            THEN -Signal2(type, answer)
                            ELSE Signal2(type, answer)), 2))

\* const strength = signal * q.weight * 15
StrengthDbl(type, answer, w10) ==
    SMul(SMul(SignalDbl(type, answer), Tenths(w10)), SOfInt(15))

\* A switch whose robustness case takes 0.6 and 0.5 of the strength.
ApplyStrengthDblUneven(run, mapsTo, s) ==
    CASE mapsTo = "accuracy" ->
             [accuracy |-> SAdd(run.accuracy, s),
              fairness |-> SSub(run.fairness, SMul(s, Tenths(6))),
              robustness |-> SSub(run.robustness, SMul(s, Tenths(4)))]
      [] mapsTo = "fairness" ->
             [accuracy |-> SSub(run.accuracy, SMul(s, Tenths(6))),
              fairness |-> SAdd(run.fairness, s),
              robustness |-> SSub(run.robustness, SMul(s, Tenths(4)))]
      [] mapsTo = "robustness" ->
             [accuracy |-> SSub(run.accuracy, SMul(s, Tenths(6))),
              fairness |-> SSub(run.fairness, SMul(s, Tenths(5))),
              robustness |-> SAdd(run.robustness, s)]

\* switch (q.mapsTo): the += of the strength and the two -= of its parts.
ApplyStrengthDbl(run, mapsTo, s) ==
    CASE mapsTo = "accuracy" ->
             [accuracy |-> SAdd(run.accuracy, s),
              fairness |-> SSub(run.fairness, SMul(s, Tenths(6))),
              robustness |-> SSub(run.robustness, SMul(s, Tenths(4)))]
      [] mapsTo = "fairness" ->
             [accuracy |-> SSub(run.accuracy, SMul(s, Tenths(6))),
              fairness |-> SAdd(run.fairness, s),
              robustness |-> SSub(run.robustness, SMul(s, Tenths(4)))]
      [] mapsTo = "robustness" ->
             [accuracy |-> SSub(run.accuracy, SMul(s, Tenths(5))),
              fairness |-> SSub(run.fairness, SMul(s, Tenths(5))),
              robustness |-> SAdd(run.robustness, s)]

\* Bound: the number of answered questions applied.
MaxSignals == 2

\* let accuracy = 40; let fairness = 40; let robustness = 20
InitRunning ==
    /\ running = [accuracy |-> SOfInt(40), fairness |-> SOfInt(40),
                  robustness |-> SOfInt(20)]
    /\ runSeen = 0
    /\ IdleInfCommunity
    /\ IdleDashboard
    /\ IdleInfer
    /\ IdleRng
    /\ IdleMC
    /\ IdleApp

\* One iteration of the loop for a question that has a response.
ApplySignalDbl ==
    /\ runSeen < MaxSignals
    /\ \E type \in QuestionTypes, mapsTo \in Objectives,
          w10 \in {10, 11, 13}, answer \in {0, 1, 2, 4, 5} :
          running' = ApplyStrengthDbl(running, mapsTo, StrengthDbl(type, answer, w10))
    /\ runSeen' = runSeen + 1
    /\ UNCHANGED <<infCommunity, dashVars, infVars, rngVars, mcVars, appVars>>

NextRunning == ApplySignalDbl

SpecRunning == InitRunning /\ [][NextRunning]_vars

\* accuracy + fairness + robustness, as the expression evaluates.
RunningSum == SAdd(SAdd(running.accuracy, running.fairness), running.robustness)

\* |x - y| < 1e-9
WithinNano(x, y) ==
    DblLess(SSub(x, y).d, DblDivInt(DblDivInt(DblDivInt(DblOfInt(1), 1000), 1000), 1000))

\* C25 (as claimed): after any number of answered questions, before the
\* clamp, accuracy + fairness + robustness = 100.
C25_RunningSumIs100 ==
    runSeen > 0 => RunningSum = SOfInt(100)

\* C25 (amended): after any number of answered questions, before the clamp,
\* accuracy + fairness + robustness differs from 100 by less than 1e-9 (the
\* parts 0.6 s and 0.4 s, or 0.5 s twice, make up s but for the rounding of
\* each operation).
C25_RunningSumNear100 ==
    runSeen > 0 => WithinNano(RunningSum, SOfInt(100))

\* Two answered questions left a sum that is not 100 but within the rounding.
C25_Witness ==
    /\ runSeen = 2
    /\ RunningSum # SOfInt(100)
    /\ WithinNano(RunningSum, SOfInt(100))


---------------------------------------------------------------------------
(***************************************************************************)
(* computeInferredCommunityWeights over the responses of the store.        *)
(***************************************************************************)
NotComputed3 == [accuracy |-> -2, fairness |-> -2, robustness |-> -2]

\* responses.filter((r) => r.inferredWeights)
WithInferred(rs) == SelectSeq(rs, LAMBDA r : r.inferredWeights # NoWeights3)

\* totalAcc, totalFair, totalRob: the sum of one weight over the responses.
RECURSIVE TotalInferred(_, _, _)
TotalInferred(rs, f, i) ==
    IF i > Len(rs) THEN 0 ELSE rs[i].inferredWeights[f] + TotalInferred(rs, f, i + 1)

\* Math.round(total / n) of each of the three totals.  (A quotient of two
\* integers that lies at a half is a double, so the rounding is that of the
\* exact quotient.)
InferredMeans(withInferred) ==
    [accuracy |-> RoundDiv(TotalInferred(withInferred, "accuracy", 1), Len(withInferred)),
     fairness |-> RoundDiv(TotalInferred(withInferred, "fairness", 1), Len(withInferred)),
     robustness |-> RoundDiv(TotalInferred(withInferred, "robustness", 1), Len(withInferred))]

computeInferredCommunityWeights(rs) ==
    IF Len(WithInferred(rs)) = 0 THEN NoWeights3 ELSE InferredMeans(WithInferred(rs))

\* inferredWeights of a response: absent, or weights that sum to 100.
InferredValues ==
    {NoWeights3,
     [accuracy |-> 20, fairness |-> 70, robustness |-> 10],
     [accuracy |-> 50, fairness |-> 30, robustness |-> 20],
     [accuracy |-> 51, fairness |-> 30, robustness |-> 19],
     [accuracy |-> 34, fairness |-> 33, robustness |-> 33]}

InferredResponses ==
    [id : {"resp"}, timestamp : {0}, selectedScenarioId : {"scenario-a"},
     accuracyVsFairness : {50}, inferredWeights : InferredValues]

InitInferredCommunity ==
    /\ responses \in UNION {[1 .. n -> InferredResponses] : n \in 0 .. MaxResponses}
    /\ comWeights = NoWeights3
    /\ insights = [totalResponses |-> -1]
    /\ infCommunity = NotComputed3
    /\ IdleRunning
    /\ IdleDashboard
    /\ IdleAutoML
    /\ IdleInfer
    /\ IdleRng
    /\ IdleMC

AggregateInferred ==
    /\ infCommunity = NotComputed3
    /\ infCommunity' = computeInferredCommunityWeights(responses)
    /\ UNCHANGED <<running, runSeen, dashVars, appVars, infVars, rngVars, mcVars>>

NextInferredCommunity == AggregateInferred

SpecInferredCommunity == InitInferredCommunity /\ [][NextInferredCommunity]_vars

\* C26: for responses of which at least one carries inferredWeights (each
\* summing to 100), computeInferredCommunityWeights returns non-negative
\* integer weights whose accuracy + fairness + robustness is exactly 100.
C26_InferredCommunitySumIs100 ==
    (infCommunity # NotComputed3 /\ Len(WithInferred(responses)) > 0) =>
        /\ infCommunity.accuracy >= 0
        /\ infCommunity.fairness >= 0
        /\ infCommunity.robustness >= 0
        /\ infCommunity.accuracy + infCommunity.fairness + infCommunity.robustness = 100


---------------------------------------------------------------------------
\* ceil(n / floor(n / 6)) for n >= 6, and n below.
DriftBuckets(n) == IF n < 6 THEN n ELSE (n + (n \div 6) - 1) \div (n \div 6)

FirstFairness == insights.preferenceDrift[1].averageFairnessPref
LastFairness == insights.preferenceDrift[Len(insights.preferenceDrift)].averageFairnessPref

\* C28: trendDirection is 'increasing_fairness' exactly when the last
\* bucket's fairness lean exceeds the first bucket's by more than 3 points,
\* 'increasing_efficiency' exactly when the first exceeds the last by more
\* than 3 points, and 'stable' otherwise (with fewer than two buckets, or a
\* difference of exactly 3).
C28_TrendByThreePoints ==
    Aggregated =>
        insights.trendDirection =
            IF Len(insights.preferenceDrift) >= 2 /\ LastFairness - FirstFairness > 30
            THEN "increasing_fairness"
            ELSE IF Len(insights.preferenceDrift) >= 2 /\ FirstFairness - LastFairness > 30
            THEN "increasing_efficiency"
            ELSE "stable"

---------------------------------------------------------------------------
(***************************************************************************)
(* The store (useAppStore) and the dashboard page.  An operation of the    *)
(* store hands set() the fields it changes and set() merges them into the  *)
(* state.  The dashboard's effect runs when the page mounts and after      *)
(* every change of one of its dependencies while it is mounted; it starts  *)
(* computeRecommendation, whose closure holds the communityWeights of the  *)
(* render that started it and which calls setRecommendation after its      *)
(* awaits (timers of 800 and 600 ms), whatever page is mounted by then.    *)
(* The other parts of a recommendation are functions of these weights.     *)
(***************************************************************************)
MaxStored == 3
MaxInFlight == 2

\* The state the store's operations read: its fields with `responses`.
StoreState(st, rs) ==
    [f \in DOMAIN st \cup {"responses"} |->
        IF f = "responses" THEN rs ELSE st[f]]

\* set(partial): the shallow merge of the partial state.
Merge(state, partial) ==
    [f \in DOMAIN state |->
        IF f \in DOMAIN partial THEN partial[f] ELSE state[f]]

\* The fields kept in the variable `store`.
StoreFields(state) == [f \in DOMAIN state \ {"responses"} |-> state[f]]

\* The operation clearing the personal recommendation as well.
addResponseClearsPersonal(state, response) ==
    [responses |-> Append(state.responses, response),
     personalRecommendation |-> "null",
     recommendation |-> NoRecommendation]

addResponse(state, response) ==
    [responses |-> Append(state.responses, response),
     recommendation |-> NoRecommendation]

setRecommendation(rec) == [recommendation |-> rec]

reset == StoreState(InitialStore, <<>>)

\* The effect of the dashboard: the in-flight computations after it ran.
DashboardEffect(state, fl) ==
    IF Len(state.responses) = 0 THEN fl
    ELSE IF state.recommendation # NoRecommendation THEN fl
    ELSE Append(fl, [communityWeights |->
                        computeCommunityWeights(state.responses)])

\* The dependencies of the effect that the store holds (communityWeights
\* is a memo of responses, setRecommendation never changes).
EffectDeps(state) ==
    <<state.responses, state.recommendation, state.datasetAnalysis,
      state.structuralAsymmetries>>

\* The in-flight computations after the store went from `old` to `new`.
AfterRender(old, new, pg, fl) ==
    IF pg = "dashboard" /\ EffectDeps(old) # EffectDeps(new)
    THEN DashboardEffect(new, fl)
    ELSE fl

\* One call of a store operation handing `partial` to set().
StoreSet(partial, fl) ==
    /\ Len(AfterRender(StoreState(store, responses),
                       Merge(StoreState(store, responses), partial),
                       page, fl)) <= MaxInFlight
    /\ responses' = Merge(StoreState(store, responses), partial).responses
    /\ store' = StoreFields(Merge(StoreState(store, responses), partial))
    /\ inFlight' = AfterRender(StoreState(store, responses),
                               Merge(StoreState(store, responses), partial),
                               page, fl)

StoreVoteData ==
    [selectedScenarioId : {"scenario-a"}, accuracyVsFairness : {20, 80},
     inferredWeights : {NoWeights3}]

Pages == {"dashboard", "survey"}

OtherVars == <<comWeights, insights, amlInput, amlResult, running, runSeen,
              infCommunity, infVars, rngVars, mcVars>>

InitStore ==
    /\ store = InitialStore
    /\ page = "survey"
    /\ inFlight = <<>>
    /\ IdleRunning
    /\ IdleInfCommunity
    /\ IdleApp
    /\ IdleInfer
    /\ IdleRng
    /\ IdleMC

\* A link of the navigation bar: the page mounts and its effects run.
Navigate ==
    /\ \E p \in Pages \ {page} :
          /\ page' = p
          /\ inFlight' = IF p = "dashboard"
                         THEN DashboardEffect(StoreState(store, responses), inFlight)
                         ELSE inFlight
          /\ Len(inFlight') <= MaxInFlight
    /\ UNCHANGED <<responses, store, OtherVars>>

\* handleSurveySubmit of the survey page, up to its first await.
Vote ==
    /\ page = "survey"
    /\ Len(responses) < MaxStored
    /\ \E data \in StoreVoteData :
          StoreSet(addResponse(StoreState(store, responses),
                               UserVote(data, Len(responses) + 1)), inFlight)
    /\ UNCHANGED <<page, OtherVars>>

\* The oldest computeRecommendation resumes after its awaits.
FinishCompute ==
    /\ inFlight # <<>>
    /\ StoreSet(setRecommendation(Head(inFlight)), Tail(inFlight))
    /\ UNCHANGED <<page, OtherVars>>

\* The setters of the dataset flow, in the order in which selectAndAnalyze
\* (and every other caller) calls them after its awaits.
SetDatasetAnalysis ==
    /\ StoreSet([datasetAnalysis |-> "analysis"], inFlight)
    /\ UNCHANGED <<page, OtherVars>>

SetStructuralAsymmetries ==
    /\ store.datasetAnalysis # "null"
    /\ StoreSet([structuralAsymmetries |-> <<"asymmetry">>], inFlight)
    /\ UNCHANGED <<page, OtherVars>>

SetValueQuestions ==
    /\ store.scenarios # <<>>
    /\ StoreSet([valueQuestions |-> <<"question">>], inFlight)
    /\ UNCHANGED <<page, OtherVars>>

SetScenarios ==
    /\ store.structuralAsymmetries # <<>>
    /\ StoreSet([scenarios |-> <<"scenario-a">>], inFlight)
    /\ UNCHANGED <<page, OtherVars>>

SetScenarioAutoMLResults ==
    /\ store.valueQuestions # <<>>
    /\ StoreSet([scenarioAutoMLResults |-> <<"result">>], inFlight)
    /\ UNCHANGED <<page, OtherVars>>

SetPersonalRecommendation ==
    /\ StoreSet([personalRecommendation |-> "personal"], inFlight)
    /\ UNCHANGED <<page, OtherVars>>

\* reset() of the navigation bar.
Reset ==
    /\ StoreSet(reset, inFlight)
    /\ UNCHANGED <<page, OtherVars>>

NextStore ==
    \/ Navigate
    \/ Vote
    \/ FinishCompute
    \/ SetDatasetAnalysis
    \/ SetStructuralAsymmetries
    \/ SetValueQuestions
    \/ SetScenarios
    \/ SetScenarioAutoMLResults
    \/ SetPersonalRecommendation
    \/ Reset

SpecStore == InitStore /\ [][NextStore]_vars

FrameFields ==
    {"datasetAnalysis", "structuralAsymmetries", "valueQuestions",
     "scenarios", "scenarioAutoMLResults", "personalRecommendation"}

\* C29: addResponse(r) appends r after the responses the store held, which
\* keep their order, sets the community recommendation to null and leaves
\* datasetAnalysis, structuralAsymmetries, valueQuestions, scenarios,
\* scenarioAutoMLResults and personalRecommendation unchanged.
C29_AddResponseFrame ==
    [][Len(responses') = Len(responses) + 1 =>
          /\ \E data \in StoreVoteData :
                responses' = Append(responses,
                                    UserVote(data, Len(responses) + 1))
          /\ store'.recommendation = NoRecommendation
          /\ \A f \in FrameFields : store'[f] = store[f]]_vars

\* The store holds MaxStored responses added by addResponse, its other
\* fields are all set and its recommendation is null.
C29_Witness ==
    /\ Len(responses) = MaxStored
    /\ store.recommendation = NoRecommendation
    /\ \A f \in FrameFields : store[f] # InitialStore[f]
    /\ inFlight = <<>>
    /\ page = "survey"

\* C30: once no computation is in flight, a stored community
\* recommendation has the communityWeights of the responses in the store.
C30_StoredRecommendationIsCurrent ==
    (inFlight = <<>> /\ store.recommendation # NoRecommendation) =>
        store.recommendation.communityWeights
            = computeCommunityWeights(responses)

=============================================================================
